---------------------------- MODULE Spec2Model ----------------------------
(***************************************************************************)
(* A model of the survey dashboard's cohort pipeline                       *)
(* (src/src/callbacks.py, src/src/data.py, src/src/layout.py):             *)
(*   filter inputs -> filter_and_summaries -> stored mask (dcc.Store)      *)
(*   -> produce_graphic.                                                   *)
(*                                                                         *)
(* Conventions.                                                            *)
(*  - A Python value that may be None, and a table cell that may be NaN,   *)
(*    is a sequence of length 0 (None / NaN) or 1 (<<v>>).                 *)
(*  - A Python string that the code builds or takes apart is a sequence of *)
(*    tokens (a summary) or of characters (a free-text answer); a string   *)
(*    that is only compared is a TLA+ string.                              *)
(*  - The respondent table, the Labels sheet, the filter presets and the   *)
(*    question/value dictionary are data files outside the repository; the *)
(*    model uses a small table of the same shape (12 rows for 6,024).      *)
(***************************************************************************)
EXTENDS Integers, Sequences, FiniteSets, TLC

VARIABLES
    phase,            \* "launch" | "running": before / after the inputs get their launch values
    inputs,           \* [cohort -> the ten filter input values] (market-X.value, ...)
    sample_style,     \* [cohort -> style of the sample-X label]
    update_style,     \* [cohort -> style of the update-audience-X button]
    sample_children,  \* [cohort -> text of the sample-X label]
    filtered_df,      \* [cohort -> dcc.Store filtered-df-X: the mask as JSON]
    summary_children, \* [cohort -> the seven summary texts]
    summary_class,    \* [cohort -> the seven summary classNames]
    check_B,          \* check-B.checked
    not_audience_A,   \* not-audience-A.checked
    question_search,  \* 'question search'.value
    output,           \* [cohort -> output-X.children]
    overview_style,   \* overview-container.style["display"]
    pending,          \* queue of callback runs Dash still has to make
    last,             \* the last callback run and what it was given (history, read by the properties)
    edits,            \* number of filter selections the user has made so far
    probe             \* input and result of a function applied on its own

vars == <<phase, inputs, sample_style, update_style, sample_children, filtered_df,
          summary_children, summary_class, check_B, not_audience_A, question_search,
          output, overview_style, pending, last, edits, probe>>

-----------------------------------------------------------------------------
(* Python values *)

None == <<>>
NaN == <<>>
Some(v) == <<v>>

\* bool(x) of an optional string: None and "" are falsy
TruthyStr(x) == x # None /\ x[1] # ""

\* bool(x) of an optional list: None and [] are falsy
TruthyList(x) == x # None /\ x[1] # <<>>

\* bool(x) of a mask element: True, False, or NaN (which Python counts as true)
TruthyCell(c) == c = NaN \/ c[1]

RECURSIVE SeqSum(_)
SeqSum(s) == IF s = <<>> THEN 0 ELSE Head(s) + SeqSum(Tail(s))

\* sum(1 for i in mask if i)
CountTrue(mask) == SeqSum([i \in 1..Len(mask) |-> IF mask[i] THEN 1 ELSE 0])

\* list.index(value): the first position holding value, 0 for ValueError
IndexOf(list, value) ==
    IF \E i \in 1..Len(list) : list[i] = value
    THEN CHOOSE i \in 1..Len(list) : list[i] = value /\ \A j \in 1..(i-1) : list[j] # value
    ELSE 0

\* round(num / den) to the nearest integer, ties to even (Python's round and '{:.0%}')
RoundHalfEven(num, den) ==
    LET q == num \div den
        r == num % den
    IN  IF 2 * r < den THEN q
        ELSE IF 2 * r > den THEN q + 1
        ELSE IF q % 2 = 0 THEN q ELSE q + 1


\* a survey answer: a Python int or a Python str
IntV(n) == [t |-> "int", n |-> n, s |-> ""]
StrV(s) == [t |-> "str", n |-> 0, s |-> s]
IsInt(x) == x.t = "int"
StrOf(x) == IF IsInt(x) THEN ToString(x.n) ELSE x.s

\* the characters of the free-text answers and keywords
Chars(s) ==
    CASE s = "ai"   -> <<"a", "i">>
      [] s = "vr"   -> <<"v", "r">>
      [] s = "fair" -> <<"f", "a", "i", "r">>
      [] s = "Others" -> <<"O", "t", "h", "e", "r", "s">>
      [] s = " "    -> <<" ">>

\* the concatenation of a list of lists
RECURSIVE Flatten(_)
Flatten(lists) == IF lists = <<>> THEN <<>> ELSE Head(lists) \o Flatten(Tail(lists))

RECURSIVE Insert(_, _)
Insert(v, s) ==
    IF s = <<>> THEN <<v>>
    ELSE IF v <= Head(s) THEN <<v>> \o s ELSE <<Head(s)>> \o Insert(v, Tail(s))

RECURSIVE Sorted(_)
Sorted(s) == IF s = <<>> THEN <<>> ELSE Insert(Head(s), Sorted(Tail(s)))

-----------------------------------------------------------------------------
(* data.py: the data files *)

\* one row of the "Data" sheet
Row(mkt, gen, age, inc, trv, out, pur, dom, q5a, q5b, q6a, q15) ==
    [mkt |-> mkt, gen |-> gen, age |-> age, inc |-> inc, trv |-> trv, out |-> out,
     pur |-> pur, dom |-> dom, q5_1 |-> q5a, q5_2 |-> q5b, q6_1 |-> q6a, q15 |-> q15]

I(n) == Some(IntV(n))
T(s) == Some(StrV(s))

\* get_data(): the respondent table
df == <<
    Row(<<"UK">>, <<"Female">>, <<18>>, <<20>>,  <<0>>,  <<FALSE>>, <<"Leisure">>,  <<"Domestic">>,      I(1), I(2), I(3), T("fair")),
    Row(<<"FR">>, <<"Male">>,   <<25>>, <<30>>,  <<2>>,  <<FALSE>>, <<"Business">>, <<"International">>, I(2), I(2), I(1), T("vr")),
    Row(<<"US">>, <<"Female">>, <<25>>, <<40>>,  <<4>>,  <<FALSE>>, <<"Business">>, <<"Domestic">>,      I(1), I(1), I(1), T("Others")),
    Row(<<"UK">>, <<"Male">>,   <<30>>, <<50>>,  <<6>>,  <<FALSE>>, <<"Leisure">>,  <<"International">>, I(3), NaN,  I(2), NaN),
    Row(<<"FR">>, <<"Female">>, <<35>>, <<60>>,  <<8>>,  <<FALSE>>, <<"Other">>,    <<"Domestic">>,      I(2), I(3), I(2), T(" ")),
    Row(<<"US">>, <<"Male">>,   <<40>>, NaN,     <<10>>, <<FALSE>>, <<"Business">>, <<"International">>, I(1), I(2), I(3), T("ai")),
    Row(<<"UK">>, <<"Female">>, <<45>>, <<70>>,  <<12>>, <<FALSE>>, NaN,            NaN,                 NaN,  NaN,  NaN,  T("fair")),
    Row(<<"FR">>, <<"Male">>,   <<50>>, <<80>>,  <<3>>,  <<FALSE>>, <<"Leisure">>,  <<"Domestic">>,      I(3), I(3), I(1), T("vr")),
    Row(<<"US">>, <<"Female">>, NaN,    <<90>>,  <<5>>,  <<FALSE>>, <<"Business">>, <<"International">>, I(2), I(1), I(2), T("Others")),
    Row(<<"UK">>, <<"Male">>,   <<60>>, <<100>>, <<99>>, <<TRUE>>,  <<"Business">>, <<"International">>, I(1), I(1), I(1), T("ai")),
    Row(<<"FR">>, <<"Prefer not to answer">>, <<65>>, <<110>>, NaN, <<FALSE>>, <<"Leisure">>, <<"Domestic">>, I(2), I(2), I(2), T("Others")),
    Row(<<"UK">>, <<"Prefer not to answer">>, <<70>>, <<120>>, <<7>>, <<FALSE>>, <<"Leisure">>, <<"International">>, I(3), I(3), I(3), T("vr")) >>

\* the hard-coded number of respondents (6,024 in the source; the model's table has 12)
TOTAL_SAMPLE == 12

Rows == 1..Len(df)

\* the survey questions (the keys of question_ids); [:3] of each
Q5  == "Q5 Which of these do you use at the airport?"
Q6  == "Q6 Which of these would you like at the airport?"
Q15 == "Q15 What innovation would you most like to see?"
QMarket == "Market"
QGender == "Gender"
QAge == "Age"
QIncome == "Income"

First3(question) ==
    CASE question = Q5 -> "Q5 "
      [] question = Q6 -> "Q6 "
      [] question = Q15 -> "Q15"
      [] question = QMarket -> "Mar"
      [] question = QGender -> "Gen"
      [] question = QAge -> "Age"
      [] question = QIncome -> "Inc"

\* one row of the "Labels" sheet
Label(alias, column, component, question) ==
    [x \in {"Variable alias", "Column", "Component", "Question"} |->
        CASE x = "Variable alias" -> alias
          [] x = "Column" -> column
          [] x = "Component" -> component
          [] x = "Question" -> question]

\* dfL: the variable catalog. The component "Lounge" is an item of Q6 and of Q5.
dfL == <<
    Label("Market", "mkt", "Market", QMarket),
    Label("Gender", "gen", "Gender", QGender),
    Label("Age", "age", "Age", QAge),
    Label("Income", "inc", "Income", QIncome),
    Label("Travel", "trv", "Travel", "Q1 total"),
    Label("Q1 travel outlier", "out", "Outlier", "Q1 total"),
    Label("Travel purpose", "pur", "Travel purpose", "Q1 purpose"),
    Label("Travel domain", "dom", "Travel domain", "Q1 domain"),
    Label("Q6", "q6_1", "Lounge", Q6),
    Label("Q5", "q5_1", "Lounge", Q5),
    Label("Q5", "q5_2", "Shops", Q5),
    Label("Q15", "q15", Q15, Q15) >>

\* a faulty variant: the preliminary filtering left out, the whole Labels sheet searched
corresponding_unscoped(value_col, value, target_col, initial_filter_col, initial_filter_value) ==
    LET RECURSIVE Pick(_)
        Pick(s) == IF s = <<>> THEN <<>>
                   ELSE IF Head(s)[value_col] = value
                        THEN <<Head(s)[target_col]>> \o Pick(Tail(s))
                        ELSE Pick(Tail(s))
    IN  Pick(dfL)

\* corresponding(value_col, value, target_col, initial_filter_col, initial_filter_value);
\* the scope is None when the two optional arguments are not given
corresponding(value_col, value, target_col, initial_filter_col, initial_filter_value) ==
    LET keep(l) == /\ (TruthyStr(initial_filter_col) /\ TruthyStr(initial_filter_value)
                          => l[initial_filter_col[1]] = initial_filter_value[1])
                   /\ l[value_col] = value
        RECURSIVE Pick(_)
        Pick(s) == IF s = <<>> THEN <<>>
                   ELSE IF keep(Head(s)) THEN <<Head(s)[target_col]>> \o Pick(Tail(s))
                   ELSE Pick(Tail(s))
    IN  Pick(dfL)

\* question_ids: question -> its variable alias
question_ids(q) == corresponding("Question", q, "Variable alias", None, None)[1]

\* the non-missing values of a column of the given rows
ColumnValues(column, rows) ==
    LET unwrap(present) == [k \in 1..Len(present) |-> present[k][1]]
    IN  unwrap(SelectSeq([k \in 1..Len(rows) |-> rows[k][column]], LAMBDA cell : cell # NaN))

\* Series.describe().apply(round): min, 25%, 50%, 75%, max of the values
\* (quantiles by linear interpolation, then Python's round)
describe(values) ==
    LET between(s, lo, r) ==
            RoundHalfEven(4 * s[lo + 1] + r * (s[(IF r = 0 THEN lo ELSE lo + 1) + 1] - s[lo + 1]), 4)
        quart(s, k) == between(s, ((Len(s) - 1) * k) \div 4, ((Len(s) - 1) * k) % 4)
        stats(s) == [min |-> s[1], q25 |-> quart(s, 1), q50 |-> quart(s, 2),
                     q75 |-> quart(s, 3), max |-> s[Len(s)]]
    IN  stats(Sorted(values))

\* an entry of an options dictionary (a Python dict keeps insertion order)
Opt(key, value) == [key |-> key, value |-> value]

\* the keys / the values of an options dictionary, in order
Keys(dict) == [i \in 1..Len(dict) |-> dict[i].key]
Values(dict) == [i \in 1..Len(dict) |-> dict[i].value]

\* markets, and market_regions: region -> markets (the "Dashboard filters" sheet)
markets == <<"UK", "FR", "US">>
market_regions == <<
    Opt("All", markets),
    Opt("Europe", <<"UK", "FR">>),
    Opt("Americas", <<"US">>) >>

\* genders: the unique values of the Gender column, in order of appearance
genders == <<"Female", "Male", "Prefer not to answer">>

gender_options(gender_option) ==
    IF gender_option = "All" THEN genders
    ELSE IF gender_option = "Exclude NAs"
         THEN SelectSeq(genders, LAMBDA g : g # "Prefer not to answer")
         ELSE <<gender_option>>

gender_groups == <<
    Opt("All", gender_options("All")),
    Opt("Exclude NAs", gender_options("Exclude NAs")),
    Opt("Female", gender_options("Female")),
    Opt("Male", gender_options("Male")) >>

\* the quick-filter ranges of a numeric dimension, from the statistics of its column
ranges(stats, group) ==
    CASE group = "All" -> <<stats.min, stats.max>>
      [] group = "Bottom 25%" -> <<stats.min, stats.q25>>
      [] group = "Bottom 50%" -> <<stats.min, stats.q50>>
      [] group = "Top 50%" -> <<stats.q50, stats.max>>
      [] group = "Top 25%" -> <<stats.q75, stats.max>>

groupings == <<"All", "Bottom 25%", "Bottom 50%", "Top 50%", "Top 25%">>

ages == describe(ColumnValues("age", df))
age_groups == [k \in 1..Len(groupings) |-> Opt(groupings[k], ranges(ages, groupings[k]))]

incomes == describe(ColumnValues("inc", df))
income_groups == [k \in 1..Len(groupings) |-> Opt(groupings[k], ranges(incomes, groupings[k]))]

\* outliers are left out of the travel statistics
travels == describe(ColumnValues("trv", SelectSeq(df, LAMBDA row : row["out"] = <<FALSE>>)))
travel_groups == [k \in 1..Len(groupings) |-> Opt(groupings[k], ranges(travels, groupings[k]))]

\* "<purpose> travelers" -> purpose ("Other" is left out); a summary is a token sequence
traveller_purposes == <<
    Opt(<<"Leisure", "travelers">>, "Leisure"),
    Opt(<<"Business", "travelers">>, "Business") >>
traveller_domains == <<
    Opt(<<"Domestic", "travelers">>, "Domestic"),
    Opt(<<"International", "travelers">>, "International") >>

\* question_values.json: question -> item -> response values
question_items_values_dict(question) ==
    CASE question = Q5 -> << Opt("Lounge", <<IntV(1), IntV(2), IntV(3)>>),
                             Opt("Shops", <<IntV(0), IntV(1), IntV(2), IntV(3)>>) >>
      [] question = Q6 -> << Opt("Lounge", <<IntV(1), IntV(2), IntV(3)>>) >>
      [] question = Q15 -> << Opt(Q15, <<StrV("ai"), StrV("vr")>>) >>

-----------------------------------------------------------------------------
(* callbacks.py: the mask builder *)

Cohorts == {"A", "B"}

\* data_cols: the data column (or behavioural part) of each of the ten input components
data_cols == <<"Market", "Gender", "Age", "Income", "Travel", "Travel purpose", "Travel domain",
               "question", "items", "responses">>

\* cols_options: data column -> options dictionary (its keys as token sequences)
cols_options(col_name) ==
    LET tokens(dict) == [k \in 1..Len(dict) |-> Opt(<<dict[k].key>>, dict[k].value)]
    IN  CASE col_name = "Market" -> tokens(market_regions)
          [] col_name = "Gender" -> tokens(gender_groups)
          [] col_name = "Age" -> tokens(age_groups)
          [] col_name = "Income" -> tokens(income_groups)
          [] col_name = "Travel" -> tokens(travel_groups)
          [] col_name = "Travel purpose" -> traveller_purposes
          [] col_name = "Travel domain" -> traveller_domains

\* the data column of a demographic variable
DemoColumn(col_name) == corresponding("Variable alias", col_name, "Column", None, None)[1]

\* data.get_data()[column]: the cells of a column, one per row
Series(column) == [i \in 1..Len(df) |-> df[i][column]]

\* a faulty variant: membership tested against the first of the values only
isin_first(series, values) ==
    [i \in 1..Len(series) |->
        Some(series[i] # NaN /\ values # <<>> /\ values[1] = series[i][1])]

\* Series.isin(values): a missing cell is in no list
isin(series, values) ==
    [i \in 1..Len(series) |->
        Some(series[i] # NaN /\ \E k \in 1..Len(values) : values[k] = series[i][1])]

\* a faulty variant: the comparison made on the column without its missing cells: a shorter mask
ge_dropna(series, v) ==
    LET present == SelectSeq(series, LAMBDA cell : cell # NaN)
    IN  [k \in 1..Len(present) |-> Some(present[k][1] >= v)]

\* a faulty variant: the upper bound left out of the range
le_exclusive(series, v) == [i \in 1..Len(series) |-> Some(series[i] # NaN /\ series[i][1] < v)]

\* Series >= v, Series <= v, Series == v: a missing cell compares false
ge(series, v) == [i \in 1..Len(series) |-> Some(series[i] # NaN /\ series[i][1] >= v)]
le(series, v) == [i \in 1..Len(series) |-> Some(series[i] # NaN /\ series[i][1] <= v)]
eq(series, v) == [i \in 1..Len(series) |-> Some(series[i] # NaN /\ series[i][1] = v)]

\* re.search(word, text) for a pattern without metacharacters: word occurs in text
Occurs(word, text) ==
    \E k \in 0..(Len(text) - Len(word)) :
        \A j \in 1..Len(word) : text[k + j] = word[j]

\* Series.str.contains("|".join(responses), regex=True): a missing (or non-string)
\* cell gives NaN, not False
str_contains(series, responses) ==
    [i \in 1..Len(series) |->
        IF series[i] = NaN \/ IsInt(series[i][1]) THEN NaN
        ELSE Some(\E k \in 1..Len(responses) :
                      Occurs(Chars(responses[k].s), Chars(series[i][1].s)))]

\* the summary of a selection: the option it equals, else what the code makes of the value
OptionSummary(col_name, value, otherwise) ==
    LET key(keys, i) == IF i # 0 THEN keys[i] ELSE otherwise
        of(options) == key(Keys(options), IndexOf(Values(options), value))
    IN  of(cols_options(col_name))

\* a faulty variant: the dash-range form for equal bounds as well
RangeSummaryDash(col_name, value) ==
    LET lo == ToString(value[1])
        hi == ToString(value[2])
    IN  CASE col_name = "Age" -> <<lo, "-", hi, "years">>
          [] col_name = "Income" -> <<"$", lo, "-", "$", hi>>
          [] col_name = "Travel" -> <<lo, "-", hi, "trips">>

\* "{} - {} years" and its like, for a range that is no option
RangeSummary(col_name, value) ==
    LET lo == ToString(value[1])
        hi == ToString(value[2])
    IN  CASE col_name = "Age" ->
                IF value[1] # value[2] THEN <<lo, "-", hi, "years">> ELSE <<lo, "years">>
          [] col_name = "Income" ->
                IF value[1] # value[2] THEN <<"$", lo, "-", "$", hi>> ELSE <<"$", lo>>
          [] col_name = "Travel" ->
                IF value[1] # value[2] THEN <<lo, "-", hi, "trips">> ELSE <<lo, "trips">>

\* the summary of one of the seven demographic columns of column_map
Summary(column_map, col_name) ==
    LET \* what the except branch makes of a value that is no option
        otherwise(value) ==
            CASE col_name \in {"Market", "Gender"} -> value  \* " ".join(value), as tokens
              [] col_name \in {"Age", "Income", "Travel"} -> RangeSummary(col_name, value)
              [] col_name \in {"Travel purpose", "Travel domain"} -> <<>>
    IN  \* the travel options hold the bare value; None is no option
        IF col_name \in {"Travel purpose", "Travel domain"} /\ column_map[col_name] = None
        THEN <<>>
        ELSE OptionSummary(col_name, column_map[col_name][1], otherwise(column_map[col_name][1]))

\* the masks one iteration of the loop over column_map appends
ColumnMasks(column_map, col_name) ==
    LET masks(value, summary, series) ==
            CASE col_name \in {"Market", "Gender"} ->
                    IF summary # <<"All">> THEN <<isin(series, value[1])>> ELSE <<>>
              [] col_name \in {"Age", "Income", "Travel"} ->
                    IF summary # <<"All">>
                    THEN <<ge(series, value[1][1]), le(series, value[1][2])>>
                    ELSE <<>>
              [] col_name \in {"Travel purpose", "Travel domain"} ->
                    IF TruthyStr(value) THEN <<eq(series, value[1])>> ELSE <<>>
    IN  IF col_name \in {"question", "items", "responses"} THEN <<>>
        ELSE masks(column_map[col_name], Summary(column_map, col_name),
                   Series(DemoColumn(col_name)))

\* type_summary, stitched from the domain and the purpose summaries
TypeSummary(domain_summary, purpose_summary) ==
    LET drop(summary) == SelectSeq(summary, LAMBDA tok : tok # "travelers")
    IN  IF domain_summary # <<>> /\ purpose_summary # <<>>
        THEN drop(domain_summary) \o drop(purpose_summary) \o <<"travelers">>
        ELSE IF domain_summary = <<>> /\ purpose_summary = <<>>
        THEN <<"All">>
        ELSE domain_summary \o purpose_summary

\* are the Behavioural filters in use: all([question, items, responses])
BehaviouralInUse(column_map) ==
    /\ TruthyStr(column_map["question"])
    /\ TruthyList(column_map["items"])
    /\ TruthyList(column_map["responses"])

\* a faulty variant: the item's column looked up in the whole Labels sheet, not within the question
ItemColumnUnscoped(item, question) ==
    corresponding("Component", item, "Column", None, None)[1]

\* the data column of a question item, looked up within the selected question
ItemColumn(item, question) ==
    corresponding("Component", item, "Column", Some("Question"), Some(question))[1]

\* the mask of one question item
ItemMask(column_map, item) ==
    LET mask(question, responses, series) ==
            IF First3(question) = "Q15" THEN str_contains(series, responses)
            ELSE isin(series, responses)
    IN  mask(column_map["question"][1], column_map["responses"][1],
             Series(ItemColumn(item, column_map["question"][1])))

\* the masks of the Behavioural filter: one per selected item
BehaviouralMasks(column_map) ==
    IF BehaviouralInUse(column_map)
    THEN [k \in 1..Len(column_map["items"][1]) |-> ItemMask(column_map, column_map["items"][1][k])]
    ELSE <<>>

behavioural_summary_values(values) ==
    IF \A k \in 1..Len(values) : IsInt(values[k])
    THEN LET ns == Sorted([k \in 1..Len(values) |-> values[k].n])
         IN  <<ToString(ns[1]), "-", ToString(ns[Len(ns)])>>
    ELSE [k \in 1..Len(values) |-> StrOf(values[k])]

BehaviouralSummary(column_map) ==
    IF BehaviouralInUse(column_map)
    THEN <<question_ids(column_map["question"][1]), "|">> \o column_map["items"][1] \o <<"|">>
            \o behavioural_summary_values(column_map["responses"][1])
    ELSE <<"-">>

\* list(map(all, zip(*masks))): as long as the shortest mask, empty without masks
ZipAll(masks) ==
    IF masks = <<>> THEN <<>>
    ELSE LET n == CHOOSE n \in 0..Len(masks[1]) :
                    /\ \A m \in 1..Len(masks) : n <= Len(masks[m])
                    /\ \E m \in 1..Len(masks) : n = Len(masks[m])
         IN  [i \in 1..n |-> \A m \in 1..Len(masks) : TruthyCell(masks[m][i])]

\* "{:,} ({:.0%})".format(mask_len, mask_len / TOTAL_SAMPLE): the count and the percent
SampleText(mask_len) == [n |-> mask_len, pct |-> RoundHalfEven(100 * mask_len, TOTAL_SAMPLE)]

\* the masks of all columns, in the order of column_map
AllMasks(column_map) ==
    Flatten([k \in 1..Len(data_cols) |-> ColumnMasks(column_map, data_cols[k])])
        \o BehaviouralMasks(column_map)

filter_and_summaries(column_map) ==
    LET summaries(summary) ==
            << summary["Market"], summary["Gender"], summary["Age"], summary["Income"],
               summary["Travel"],
               TypeSummary(summary["Travel domain"], summary["Travel purpose"]),
               BehaviouralSummary(column_map) >>
        returned(final_mask, summaries_) ==
            [final_mask |-> final_mask,
             sample_update |-> SampleText(IF final_mask # <<>> THEN CountTrue(final_mask)
                                          ELSE TOTAL_SAMPLE),
             summaries |-> summaries_,
             summary_colors |-> [k \in 1..Len(summaries_) |->
                                    IF summaries_[k] = <<"All">> \/ summaries_[k] = <<"-">>
                                    THEN "" ELSE "text-info"]]
    IN  returned(ZipAll(AllMasks(column_map)),
                 summaries([col_name \in {"Market", "Gender", "Age", "Income", "Travel",
                                          "Travel purpose", "Travel domain"} |->
                                Summary(column_map, col_name)]))

\* if_not_audience_A("sample_update", final_mask_len)
if_not_audience_A_sample_update(final_mask_len) ==
    SampleText(IF final_mask_len # 0 THEN TOTAL_SAMPLE - final_mask_len ELSE 0)

\* a faulty variant: the inverse without the special case of the empty list
if_not_audience_A_final_mask_plain(final_mask) ==
    [i \in 1..Len(final_mask) |-> ~final_mask[i]]

\* if_not_audience_A("final_mask", final_mask)
if_not_audience_A_final_mask(final_mask) ==
    IF final_mask # <<>> THEN [i \in 1..Len(final_mask) |-> ~final_mask[i]]
    ELSE [i \in 1..TOTAL_SAMPLE |-> FALSE]

\* if_not_audience_A("summaries", summaries, final_mask_len)
if_not_audience_A_summaries(summaries, final_mask_len) ==
    IF final_mask_len # 0
    THEN [k \in 1..Len(summaries) |->
            IF summaries[k] # <<"All">> /\ summaries[k] # <<"-">>
            THEN <<"NOT">> \o summaries[k] ELSE summaries[k]]
    ELSE [k \in 1..Len(summaries) |-> <<>>]

-----------------------------------------------------------------------------
(* layout.py and callbacks.py: the components and their callbacks *)

\* a component id, split into its stem and its last character (the audience version)
Id(name, version) == [name |-> name, version |-> version]

\* input_components: the ten filter inputs of an audience, in the order of data_cols
input_components == <<"market-", "gender-", "age-", "income-", "travel-",
                      "purpose-type-", "domain-type-",
                      "custom_selected_question-", "custom_selected_item-",
                      "custom_selected_response-">>

InputSet == {input_components[k] : k \in 1..Len(input_components)}

\* column_map = {col_name : value for col_name, value in zip(data_cols, inputs)}
ColumnMap(values) ==
    [col_name \in {data_cols[k] : k \in 1..Len(data_cols)} |->
        values[input_components[IndexOf(data_cols, col_name)]]]

\* json.dumps / json.loads of a list of booleans: the text, token by token
json_dumps(mask) == [i \in 1..Len(mask) |-> IF mask[i] THEN "true" ELSE "false"]
json_loads(text) == [i \in 1..Len(text) |-> text[i] = "true"]

Style(display, opacity) == [display |-> display, opacity |-> opacity]

\* the children of output-A / output-B
Children(kind, className, rows, columns, A_or_B, q_id) ==
    [kind |-> kind, className |-> className, rows |-> rows, columns |-> columns,
     A_or_B |-> A_or_B, q_id |-> q_id]
NoChildren == Children("None", "", <<>>, <<>>, "", "")
EmptyString == Children("empty", "", <<>>, <<>>, "", "")
\* dcc.Markdown("Please ensure sample comprises 10+ individuals.")
Markdown(className) == Children("message", className, <<>>, <<>>, "", "")

\* the smallest sample the aggregation functions are given
MIN_SAMPLE == 10

\* run_question_function(df, columns, A_or_B, q_id): the content the question's function
\* makes of the rows; the functions themselves are in agg_functions.py
run_question_function(rows, columns, A_or_B, q_id) ==
    Children("graphic", "", rows, columns, A_or_B, q_id)

\* a faulty variant: the rows of a mask without the special case of the empty list
LocNoSentinel(mask) == SelectSeq([i \in 1..Len(mask) |-> i], LAMBDA i : mask[i])

\* get_data().loc[mask] if mask else get_data(): the rows, by index
Loc(mask) ==
    LET loc(index) == IF mask # <<>> THEN SelectSeq(index, LAMBDA i : mask[i]) ELSE index
    IN  loc([i \in 1..Len(df) |-> i])

\* a faulty variant: the message for ten rows as well
RenderOffByOne(stored, columns, A_or_B, q_id) ==
    LET content(rows) ==
            IF Len(rows) <= MIN_SAMPLE
            THEN Markdown(IF A_or_B = "A" THEN "text-danger" ELSE "text-secondary")
            ELSE run_question_function(rows, columns, A_or_B, q_id)
    IN  content(Loc(json_loads(stored)))

\* the content of one audience: the message below ten rows, else the question's function
Render(stored, columns, A_or_B, q_id) ==
    LET content(rows) ==
            IF Len(rows) < MIN_SAMPLE
            THEN Markdown(IF A_or_B = "A" THEN "text-danger" ELSE "text-secondary")
            ELSE run_question_function(rows, columns, A_or_B, q_id)
    IN  content(Loc(json_loads(stored)))

\* a callback run Dash has still to make, and the inputs that triggered it
Run(cb, triggered) == [cb |-> cb, triggered |-> triggered]

\* the history of the last step: a user event, or a callback run with its trigger
UserEvent == [cb |-> "user", triggered |-> <<>>, rendered |-> {}]
Ran(run, rendered) == [cb |-> run.cb, triggered |-> run.triggered, rendered |-> rendered]

NoProbe == [fn |-> "none"]

\* the "All" selection of the five demographic inputs, as the on_*_options callbacks assign it
AllValues ==
    [c \in InputSet |->
        CASE c = "market-" -> Some(market_regions[1].value)
          [] c = "gender-" -> Some(gender_groups[1].value)
          [] c = "age-" -> Some(age_groups[1].value)
          [] c = "income-" -> Some(income_groups[1].value)
          [] c = "travel-" -> Some(travel_groups[1].value)
          [] OTHER -> None]

\* the layout: no input has a value yet, both stores hold "[]", the overview is shown
Layout ==
    /\ phase = "launch"
    /\ inputs = [X \in Cohorts |-> [c \in InputSet |-> None]]
    /\ sample_style = [X \in Cohorts |-> IF X = "A" THEN Style("inline", "unset")
                                                     ELSE Style("inline", "0")]
    /\ update_style = [X \in Cohorts |-> IF X = "A" THEN Style("none", "unset")
                                                     ELSE Style("none", "0")]
    /\ sample_children = [X \in Cohorts |-> SampleText(TOTAL_SAMPLE)]
    /\ filtered_df = [X \in Cohorts |-> <<>>]
    /\ summary_children = [X \in Cohorts |-> <<<<"All">>, <<"All">>, <<"All">>, <<"All">>,
                                               <<"All">>, <<"All">>, <<"-">>>>]
    /\ summary_class = [X \in Cohorts |-> <<"", "", "", "", "", "", "">>]
    /\ check_B = FALSE
    /\ not_audience_A = FALSE
    /\ question_search = None
    /\ output = [X \in Cohorts |-> NoChildren]
    /\ overview_style = "inline"
    /\ pending = << Run("on_input_change_or_button_press", <<>>), Run("produce_graphic", <<>>) >>
    /\ last = UserEvent
    /\ edits = 0

Init == Layout /\ probe = NoProbe

-----------------------------------------------------------------------------
(* callbacks.py: on_input_change_or_button_press *)

no_update == <<>>

\* what a callback returns for the two audiences' components: a value or no_update
Both(A, B) == [X \in Cohorts |-> IF X = "A" THEN A ELSE B]
Neither == Both(no_update, no_update)

\* the component takes the returned value unless it is no_update
Apply(old, returned) ==
    [X \in Cohorts |-> IF returned[X] = no_update THEN old[X] ELSE returned[X][1]]

Returns(s_style, u_style, s_children, store, summaries, classes) ==
    [sample_style |-> s_style, update_style |-> u_style, sample_children |-> s_children,
     filtered_df |-> store, summary_children |-> summaries, summary_class |-> classes]

NoUpdates == Returns(Neither, Neither, Neither, Neither, Neither, Neither)

\* the user toggled the Audience B checkbox: the opacity of B's label and button follows it
CheckBToggled(checkbox) ==
    LET opacity == IF checkbox THEN "1" ELSE "0"
    IN  Returns(Both(no_update, Some([sample_style["B"] EXCEPT !.opacity = opacity])),
                Both(no_update, Some([update_style["B"] EXCEPT !.opacity = opacity])),
                Neither, Neither, Neither, Neither)

\* a faulty variant: the update replaces the mask and the sample but leaves the summaries as they were
UpdateAPressedPartial ==
    LET returns(r) ==
            Returns(Both(Some([sample_style["A"] EXCEPT !.display = "inline"]), no_update),
                    Both(Some([update_style["A"] EXCEPT !.display = "none"]), no_update),
                    Both(Some(r.sample_update), no_update),
                    Both(Some(json_dumps(r.final_mask)), no_update),
                    Neither, Neither)
    IN  returns(filter_and_summaries(ColumnMap(inputs["A"])))

\* a faulty variant: B is given A's inverse whatever the two checkboxes say
UpdateAPressedAlways ==
    LET sample_A_style == [sample_style["A"] EXCEPT !.display = "inline"]
        update_A_style == [update_style["A"] EXCEPT !.display = "none"]
        returns(r, final_mask_len) ==
            Returns(Both(Some(sample_A_style), Some(sample_A_style)),
                    Both(Some(update_A_style), Some(update_A_style)),
                    Both(Some(r.sample_update),
                         Some(if_not_audience_A_sample_update(final_mask_len))),
                    Both(Some(json_dumps(r.final_mask)),
                         Some(json_dumps(if_not_audience_A_final_mask(r.final_mask)))),
                    Both(Some(r.summaries),
                         Some(if_not_audience_A_summaries(r.summaries, final_mask_len))),
                    Both(Some(r.summary_colors), Some(r.summary_colors)))
        update(r) == returns(r, CountTrue(r.final_mask))
    IN  update(filter_and_summaries(ColumnMap(inputs["A"])))

\* update-audience-A was pressed: A is computed from A's inputs, and B is given A's inverse
\* (and A's style dictionaries) when check-B and not-audience-A are both checked
UpdateAPressed ==
    LET sample_A_style == [sample_style["A"] EXCEPT !.display = "inline"]
        update_A_style == [update_style["A"] EXCEPT !.display = "none"]
        both == check_B /\ not_audience_A
        B(value) == IF ~both THEN no_update ELSE Some(value)
        \* r: what filter_and_summaries returns
        returns(r, final_mask_len) ==
            Returns(Both(Some(sample_A_style), B(sample_A_style)),
                    Both(Some(update_A_style), B(update_A_style)),
                    Both(Some(r.sample_update),
                         B(if_not_audience_A_sample_update(final_mask_len))),
                    Both(Some(json_dumps(r.final_mask)),
                         B(json_dumps(if_not_audience_A_final_mask(r.final_mask)))),
                    Both(Some(r.summaries),
                         B(if_not_audience_A_summaries(r.summaries, final_mask_len))),
                    Both(Some(r.summary_colors), B(r.summary_colors)))
        update(r) == returns(r, CountTrue(r.final_mask))
    IN  update(filter_and_summaries(ColumnMap(inputs["A"])))

\* update-audience-B was pressed: B is computed from B's inputs, or, when not-audience-A is
\* checked, as the inverse of what A's inputs (states[4:14]) give
UpdateBPressed ==
    LET \* r: what filter_and_summaries returns
        returns(r, final_mask_len) ==
            Returns(Both(no_update, Some([sample_style["B"] EXCEPT !.display = "inline"])),
                    Both(no_update, Some([update_style["B"] EXCEPT !.display = "none"])),
                    Both(no_update, Some(IF ~not_audience_A THEN r.sample_update
                                         ELSE if_not_audience_A_sample_update(final_mask_len))),
                    Both(no_update, Some(json_dumps(
                                        IF ~not_audience_A THEN r.final_mask
                                        ELSE if_not_audience_A_final_mask(r.final_mask)))),
                    Both(no_update, Some(IF ~not_audience_A THEN r.summaries
                                         ELSE if_not_audience_A_summaries(r.summaries,
                                                                          final_mask_len))),
                    Both(no_update, Some(r.summary_colors)))
        update(r) == returns(r, CountTrue(r.final_mask))
    IN  update(filter_and_summaries(ColumnMap(IF ~not_audience_A THEN inputs["B"]
                                              ELSE inputs["A"])))

\* a faulty variant: every filter change recomputes the audience at once
FiltersChangedEager(X) == IF X = "A" THEN UpdateAPressed ELSE UpdateBPressed

\* a filter input of audience X changed (for B, also the not-audience-A checkbox):
\* X's sample label is hidden and X's update button shown
FiltersChanged(X) ==
    LET hidden == Some([sample_style[X] EXCEPT !.display = "none"])
        shown == Some([update_style[X] EXCEPT !.display = "inline"])
    IN  Returns(IF X = "A" THEN Both(hidden, no_update) ELSE Both(no_update, hidden),
                IF X = "A" THEN Both(shown, no_update) ELSE Both(no_update, shown),
                Neither, Neither, Neither, Neither)

\* the value the callback returns, given ctx.triggered; the states are the components' values
on_input_change_or_button_press(triggered) ==
    LET trigger_id == IF triggered = <<>> THEN Id("", "") ELSE triggered[1]
    IN
    \* 1st run: no input has a value yet
    IF \A X \in Cohorts : \A c \in InputSet : inputs[X][c] = None
    THEN NoUpdates
    \* 2nd run: the inputs of both audiences fire together
    ELSE IF \A x \in {Id("market-", "A"), Id("market-", "B")} :
                \E k \in 1..Len(triggered) : triggered[k] = x
    THEN NoUpdates
    ELSE IF trigger_id = Id("check-", "B")
    THEN CheckBToggled(check_B)
    ELSE IF trigger_id.name # "update-audience-"
    THEN IF trigger_id.version = "A" /\ trigger_id # Id("not-audience-", "A")
         THEN FiltersChanged("A")
         ELSE IF trigger_id.version = "B" \/ trigger_id = Id("not-audience-", "A")
         THEN FiltersChanged("B")
         ELSE NoUpdates
    ELSE IF trigger_id.version = "A"
    THEN UpdateAPressed
    ELSE UpdateBPressed

\* the stores a return value writes, in the order of the callback's outputs
Written(store) ==
    (IF store["A"] # no_update THEN <<Id("filtered-df-", "A")>> ELSE <<>>) \o
    (IF store["B"] # no_update THEN <<Id("filtered-df-", "B")>> ELSE <<>>)

\* Dash runs the callback, sets its outputs, and queues produce_graphic for the stores written
RunInputChangeOrButtonPress ==
    /\ pending # <<>>
    /\ Head(pending).cb = "on_input_change_or_button_press"
    /\ LET set(run, ret, written) ==
               /\ sample_style' = Apply(sample_style, ret.sample_style)
               /\ update_style' = Apply(update_style, ret.update_style)
               /\ sample_children' = Apply(sample_children, ret.sample_children)
               /\ filtered_df' = Apply(filtered_df, ret.filtered_df)
               /\ summary_children' = Apply(summary_children, ret.summary_children)
               /\ summary_class' = Apply(summary_class, ret.summary_class)
               /\ pending' = Tail(pending) \o
                             (IF written = <<>> THEN <<>> ELSE <<Run("produce_graphic", written)>>)
               /\ last' = Ran(run, {})
           returned(run, ret) == set(run, ret, Written(ret.filtered_df))
       IN  returned(Head(pending), on_input_change_or_button_press(Head(pending).triggered))
    /\ UNCHANGED <<phase, inputs, check_B, not_audience_A, question_search, output,
                   overview_style, edits, probe>>

-----------------------------------------------------------------------------
(* callbacks.py: produce_graphic *)

Produced(A, B, overview, rendered) ==
    [output |-> Both(A, B), overview_style |-> overview, rendered |-> rendered]

\* a faulty variant: a change of a stored mask leaves the content as it is
produce_graphic_masks_ignored(triggered) ==
    LET trigger_id == IF triggered = <<>> THEN Id("", "") ELSE triggered[1]
    IN
    IF triggered = <<>>
    THEN Produced(no_update, no_update, overview_style, {})
    ELSE IF trigger_id = Id("overview", "")
    THEN Produced(Some(NoChildren), Some(NoChildren), "inline", {})
    ELSE IF trigger_id = Id("close-overview", "")
    THEN Produced(Some(NoChildren), Some(NoChildren), "none", {})
    ELSE IF TruthyStr(question_search)
    THEN LET q_id == question_ids(question_search[1])
             columns == corresponding("Variable alias", q_id, "Column", None, None)
             content(A_or_B) == Render(filtered_df[A_or_B], columns, A_or_B, q_id)
         IN  IF trigger_id = Id("question search", "") \/ Len(triggered) = 2
             THEN Produced(Some(content("A")),
                           IF check_B THEN Some(content("B")) ELSE Some(EmptyString),
                           "none",
                           IF check_B THEN {"A", "B"} ELSE {"A"})
             ELSE IF trigger_id = Id("filtered-df-", "A") \/ trigger_id = Id("filtered-df-", "B")
             THEN Produced(no_update, no_update, "none", {})
             ELSE IF trigger_id = Id("check-", "B")
             THEN IF check_B
                  THEN Produced(no_update, Some(content("B")), "none", {"B"})
                  ELSE Produced(no_update, Some(NoChildren), "none", {})
             ELSE Produced(Some(NoChildren), Some(NoChildren), "none", {})
    ELSE Produced(Some(NoChildren), Some(NoChildren), "none", {})

\* the value the callback returns, given ctx.triggered; rendered names the audiences whose
\* content was made from their rows
produce_graphic(triggered) ==
    LET trigger_id == IF triggered = <<>> THEN Id("", "") ELSE triggered[1]
    IN
    IF triggered = <<>>
    THEN Produced(no_update, no_update, overview_style, {})
    ELSE IF trigger_id = Id("overview", "")
    THEN Produced(Some(NoChildren), Some(NoChildren), "inline", {})
    ELSE IF trigger_id = Id("close-overview", "")
    THEN Produced(Some(NoChildren), Some(NoChildren), "none", {})
    ELSE IF TruthyStr(question_search)
    THEN LET q_id == question_ids(question_search[1])
             columns == corresponding("Variable alias", q_id, "Column", None, None)
             content(A_or_B) == Render(filtered_df[A_or_B], columns, A_or_B, q_id)
         IN  IF trigger_id = Id("question search", "") \/ Len(triggered) = 2
             THEN Produced(Some(content("A")),
                           IF check_B THEN Some(content("B")) ELSE Some(EmptyString),
                           "none",
                           IF check_B THEN {"A", "B"} ELSE {"A"})
             ELSE IF trigger_id = Id("filtered-df-", "A") \/ trigger_id = Id("filtered-df-", "B")
             THEN LET A_or_B == trigger_id.version
                  IN  Produced(IF A_or_B = "A" THEN Some(content("A")) ELSE no_update,
                               IF A_or_B = "B" THEN Some(content("B")) ELSE no_update,
                               "none", {A_or_B})
             ELSE IF trigger_id = Id("check-", "B")
             THEN IF check_B
                  THEN Produced(no_update, Some(content("B")), "none", {"B"})
                  ELSE Produced(no_update, Some(NoChildren), "none", {})
             ELSE Produced(Some(NoChildren), Some(NoChildren), "none", {})
    ELSE Produced(Some(NoChildren), Some(NoChildren), "none", {})

RunProduceGraphic ==
    /\ pending # <<>>
    /\ Head(pending).cb = "produce_graphic"
    /\ LET set(run, ret) ==
               /\ output' = Apply(output, ret.output)
               /\ overview_style' = ret.overview_style
               /\ last' = Ran(run, ret.rendered)
       IN  set(Head(pending), produce_graphic(Head(pending).triggered))
    /\ pending' = Tail(pending)
    /\ UNCHANGED <<phase, inputs, sample_style, update_style, sample_children, filtered_df,
                   summary_children, summary_class, check_B, not_audience_A, question_search,
                   edits, probe>>

-----------------------------------------------------------------------------
(* callbacks.py: the behavioural-filter dropdowns *)

\* dict[key]
Lookup(dict, key) == dict[IndexOf(Keys(dict), key)].value

\* list(dict.fromkeys(values)): the first occurrence of each value, in order
RECURSIVE FromKeys(_)
FromKeys(values) ==
    IF values = <<>> THEN <<>>
    ELSE LET v == values[Len(values)]
             front == FromKeys(SubSeq(values, 1, Len(values) - 1))
         IN  IF IndexOf(front, v) # 0 THEN front ELSE Append(front, v)

\* on_custom_selected_question: the items dropdown takes every item of the question
ItemsValue(question) ==
    IF TruthyStr(question) THEN Some(Keys(question_items_values_dict(question[1]))) ELSE None

\* a faulty variant: the responses in the order of the items' lists, integers as well
ResponsesValue_unsorted(question, question_items) ==
    IF TruthyList(question_items)
    THEN LET dict == question_items_values_dict(question[1])
             items == question_items[1]
         IN  Some(FromKeys(Flatten([k \in 1..Len(items) |-> Lookup(dict, items[k])])))
    ELSE None

\* on_custom_selected_item: the responses dropdown takes every response of the items
ResponsesValue(question, question_items) ==
    IF TruthyList(question_items)
    THEN LET dict == question_items_values_dict(question[1])
             items == question_items[1]
             response_values == FromKeys(Flatten([k \in 1..Len(items) |-> Lookup(dict, items[k])]))
         IN  IF \A k \in 1..Len(response_values) : IsInt(response_values[k])
             THEN LET ns == Sorted([k \in 1..Len(response_values) |-> response_values[k].n])
                  IN  Some([k \in 1..Len(ns) |-> IntV(ns[k])])
             ELSE Some(response_values)
    ELSE None

\* the callbacks that have the value of an audience's input component as an Input
Dependents(id) ==
    <<Run("on_input_change_or_button_press", <<id>>)>> \o
    (IF id.name = "custom_selected_question-" THEN <<Run("on_custom_selected_question", <<id>>)>>
     ELSE IF id.name = "custom_selected_item-" THEN <<Run("on_custom_selected_item", <<id>>)>>
     ELSE <<>>)

RunCustomSelectedQuestion ==
    /\ pending # <<>>
    /\ Head(pending).cb = "on_custom_selected_question"
    /\ LET run == Head(pending)
           X == run.triggered[1].version
           question == inputs[X]["custom_selected_question-"]
       IN  /\ inputs' = [inputs EXCEPT ![X]["custom_selected_item-"] = ItemsValue(question)]
           /\ pending' = Tail(pending) \o Dependents(Id("custom_selected_item-", X))
           /\ last' = Ran(run, {})
    /\ UNCHANGED <<phase, sample_style, update_style, sample_children, filtered_df,
                   summary_children, summary_class, check_B, not_audience_A, question_search,
                   output, overview_style, edits, probe>>

RunCustomSelectedItem ==
    /\ pending # <<>>
    /\ Head(pending).cb = "on_custom_selected_item"
    /\ LET run == Head(pending)
           X == run.triggered[1].version
           question == inputs[X]["custom_selected_question-"]
           question_items == inputs[X]["custom_selected_item-"]
       IN  /\ inputs' = [inputs EXCEPT ![X]["custom_selected_response-"] =
                                            ResponsesValue(question, question_items)]
           /\ pending' = Tail(pending) \o Dependents(Id("custom_selected_response-", X))
           /\ last' = Ran(run, {})
    /\ UNCHANGED <<phase, sample_style, update_style, sample_children, filtered_df,
                   summary_children, summary_class, check_B, not_audience_A, question_search,
                   output, overview_style, edits, probe>>

-----------------------------------------------------------------------------
(* the user, and Dash's launch *)

\* the number of filter selections the user makes
MaxEdits == 1

\* the selections the user makes in an input component of audience X
UserValues(X, c) ==
    CASE c = "market-" -> {Some(markets), Some(Lookup(market_regions, "Europe")), Some(<<>>)}
      [] c = "gender-" -> {Some(Lookup(gender_groups, "All")),
                           Some(Lookup(gender_groups, "Exclude NAs"))}
      [] c = "age-" -> {Some(Lookup(age_groups, "All")), Some(<<25, 25>>)}
      [] c = "purpose-type-" -> {None, Some("Business")}
      [] c = "custom_selected_question-" -> {None, Some(Q15), Some(Q5)}
      [] c = "custom_selected_item-" ->
            IF TruthyStr(inputs[X]["custom_selected_question-"])
            THEN LET items == Keys(question_items_values_dict(
                                       inputs[X]["custom_selected_question-"][1]))
                 IN  {Some(<<items[Len(items)]>>), Some(<<>>)}
            ELSE {}
      [] c = "custom_selected_response-" ->
            IF TruthyList(inputs[X]["custom_selected_item-"])
            THEN {Some(<<StrV("ai")>>), Some(<<>>)}
            ELSE {}
      [] OTHER -> {}

\* the questions the user picks in 'question search'
UserQuestions == {None, Some(Q5)}

\* audience B's card body opens only while check-B is checked (on_filter_menu closes it and
\* on_checkbox_change disables menu-B when it is unchecked)
MenuBEnabled == check_B

\* audience B's filter headers are closed and disabled while not-audience-A is checked
HeadersBEnabled == ~not_audience_A

\* launch: the first run of every callback is over; the preset callbacks give the five
\* demographic inputs of both audiences their "All" values, which fire together
Launch ==
    /\ phase = "launch"
    /\ pending = <<>>
    /\ phase' = "running"
    /\ inputs' = [X \in Cohorts |-> AllValues]
    /\ pending' = << Run("on_input_change_or_button_press",
                         << Id("market-", "A"), Id("market-", "B"),
                            Id("gender-", "A"), Id("gender-", "B"),
                            Id("age-", "A"), Id("age-", "B"),
                            Id("income-", "A"), Id("income-", "B"),
                            Id("travel-", "A"), Id("travel-", "B") >>) >>
    /\ last' = UserEvent
    /\ UNCHANGED <<sample_style, update_style, sample_children, filtered_df, summary_children,
                   summary_class, check_B, not_audience_A, question_search, output,
                   overview_style, edits, probe>>

Ready == phase = "running" /\ pending = <<>>

\* the user selects a value in one of the filter inputs
SelectFilter ==
    /\ Ready
    /\ edits < MaxEdits
    /\ \E X \in Cohorts : \E c \in InputSet : \E v \in UserValues(X, c) :
        /\ X = "B" => MenuBEnabled /\ HeadersBEnabled
        /\ v # inputs[X][c]
        /\ inputs' = [inputs EXCEPT ![X][c] = v]
        /\ pending' = Dependents(Id(c, X))
    /\ edits' = edits + 1
    /\ last' = UserEvent
    /\ UNCHANGED <<phase, sample_style, update_style, sample_children, filtered_df,
                   summary_children, summary_class, check_B, not_audience_A, question_search,
                   output, overview_style, probe>>

\* the user clicks the check-B checkbox
ClickCheckB ==
    /\ Ready
    /\ check_B' = ~check_B
    /\ pending' = << Run("on_input_change_or_button_press", <<Id("check-", "B")>>),
                     Run("produce_graphic", <<Id("check-", "B")>>) >>
    /\ last' = UserEvent
    /\ UNCHANGED <<phase, inputs, sample_style, update_style, sample_children, filtered_df,
                   summary_children, summary_class, not_audience_A, question_search, output,
                   overview_style, edits, probe>>

\* the user clicks the not-audience-A checkbox, in audience B's card body
ClickNotAudienceA ==
    /\ Ready
    /\ MenuBEnabled
    /\ not_audience_A' = ~not_audience_A
    /\ pending' = << Run("on_input_change_or_button_press", <<Id("not-audience-", "A")>>) >>
    /\ last' = UserEvent
    /\ UNCHANGED <<phase, inputs, sample_style, update_style, sample_children, filtered_df,
                   summary_children, summary_class, check_B, question_search, output,
                   overview_style, edits, probe>>

\* the user presses an update button; the button is in the card header, and display "none"
\* is all that removes it from the page
PressUpdate ==
    /\ Ready
    /\ \E X \in Cohorts :
        /\ update_style[X].display = "inline"
        /\ pending' = << Run("on_input_change_or_button_press", <<Id("update-audience-", X)>>) >>
    /\ last' = UserEvent
    /\ UNCHANGED <<phase, inputs, sample_style, update_style, sample_children, filtered_df,
                   summary_children, summary_class, check_B, not_audience_A, question_search,
                   output, overview_style, edits, probe>>

\* the user picks or clears the question
SelectQuestion ==
    /\ Ready
    /\ \E q \in UserQuestions :
        /\ q # question_search
        /\ question_search' = q
    /\ pending' = << Run("produce_graphic", <<Id("question search", "")>>) >>
    /\ last' = UserEvent
    /\ UNCHANGED <<phase, inputs, sample_style, update_style, sample_children, filtered_df,
                   summary_children, summary_class, check_B, not_audience_A, output,
                   overview_style, edits, probe>>

\* the user opens the research overview, or closes it with the button inside it
ClickOverview ==
    /\ Ready
    /\ \E button \in {"overview", "close-overview"} :
        /\ button = "close-overview" => overview_style = "inline"
        /\ pending' = << Run("produce_graphic", <<Id(button, "")>>) >>
    /\ last' = UserEvent
    /\ UNCHANGED <<phase, inputs, sample_style, update_style, sample_children, filtered_df,
                   summary_children, summary_class, check_B, not_audience_A, question_search,
                   output, overview_style, edits, probe>>

Next ==
    \/ Launch
    \/ RunInputChangeOrButtonPress
    \/ RunProduceGraphic
    \/ RunCustomSelectedQuestion
    \/ RunCustomSelectedItem
    \/ SelectFilter
    \/ ClickCheckB
    \/ ClickNotAudienceA
    \/ PressUpdate
    \/ SelectQuestion
    \/ ClickOverview

Spec == Init /\ [][Next]_vars

-----------------------------------------------------------------------------
(* filter_and_summaries applied on its own, to every selection of a small catalogue *)

MarketChoices == {Some(markets), Some(Lookup(market_regions, "Europe")),
                  Some(<<"US", "UK">>), Some(<<>>)}
GenderChoices == {Some(Lookup(gender_groups, "All")), Some(Lookup(gender_groups, "Exclude NAs")),
                  Some(<<"Male", "Prefer not to answer">>), Some(<<>>)}
AgeChoices == {Some(Lookup(age_groups, "All")), Some(Lookup(age_groups, "Top 50%")),
               Some(<<25, 25>>)}
IncomeChoices == {Some(Lookup(income_groups, "All")), Some(<<40, 90>>), Some(<<45, 45>>)}
TravelChoices == {Some(Lookup(travel_groups, "All")), Some(<<2, 2>>)}
PurposeChoices == {None, Some("Business"), Some("Leisure")}
DomainChoices == {None, Some("International")}

\* question, items, responses
Behavioural(question, items, responses) ==
    [question |-> question, items |-> items, responses |-> responses]
BehaviouralChoices ==
    { Behavioural(None, None, None),
      Behavioural(Some(Q5), Some(<<>>), None),
      Behavioural(Some(Q5), Some(<<"Shops">>), Some(<<>>)),
      Behavioural(Some(Q5), Some(<<"Lounge", "Shops">>), Some(<<IntV(1), IntV(2), IntV(3)>>)),
      Behavioural(Some(Q5), Some(<<"Lounge", "Shops">>), Some(<<IntV(1), IntV(2)>>)),
      Behavioural(Some(Q5), Some(<<"Lounge">>), Some(<<IntV(1)>>)),
      Behavioural(Some(Q6), Some(<<"Lounge">>), Some(<<IntV(3)>>)),
      Behavioural(Some(Q15), Some(<<Q15>>), Some(<<StrV("ai"), StrV("vr")>>)),
      Behavioural(Some(Q15), Some(<<Q15>>), Some(<<StrV("ai")>>)) }

Selection(market, gender, age, income, travel, purpose, domain, b) ==
    [col_name \in {data_cols[k] : k \in 1..Len(data_cols)} |->
        CASE col_name = "Market" -> market
          [] col_name = "Gender" -> gender
          [] col_name = "Age" -> age
          [] col_name = "Income" -> income
          [] col_name = "Travel" -> travel
          [] col_name = "Travel purpose" -> purpose
          [] col_name = "Travel domain" -> domain
          [] col_name = "question" -> b.question
          [] col_name = "items" -> b.items
          [] col_name = "responses" -> b.responses]

Selections ==
    { Selection(market, gender, age, income, travel, purpose, domain, b) :
        market \in MarketChoices, gender \in GenderChoices, age \in AgeChoices,
        income \in IncomeChoices, travel \in TravelChoices, purpose \in PurposeChoices,
        domain \in DomainChoices, b \in BehaviouralChoices }

InitFilter ==
    /\ Layout
    /\ \E column_map \in Selections :
        probe = [fn |-> "filter_and_summaries", column_map |-> column_map, done |-> FALSE,
                 masks |-> <<>>, behavioural |-> <<>>, returned |-> <<>>]

\* the call: masks is the list the function builds (behavioural: the part the Behavioural
\* filter appends), returned what it returns
CallFilterAndSummaries ==
    /\ probe.fn = "filter_and_summaries"
    /\ ~probe.done
    /\ probe' = [probe EXCEPT !.done = TRUE,
                              !.masks = AllMasks(probe.column_map),
                              !.behavioural = BehaviouralMasks(probe.column_map),
                              !.returned = filter_and_summaries(probe.column_map)]
    /\ UNCHANGED <<phase, inputs, sample_style, update_style, sample_children, filtered_df,
                   summary_children, summary_class, check_B, not_audience_A, question_search,
                   output, overview_style, pending, last, edits>>

NextFilter == CallFilterAndSummaries

SpecFilter == InitFilter /\ [][NextFilter]_vars

-----------------------------------------------------------------------------
(* if_not_audience_A("final_mask") applied on its own, once and twice, to every mask *)

Masks == {<<>>} \cup [1..TOTAL_SAMPLE -> BOOLEAN]

InitInvert ==
    /\ Layout
    /\ \E final_mask \in Masks :
        probe = [fn |-> "if_not_audience_A", final_mask |-> final_mask,
                 returned |-> final_mask, calls |-> 0]

CallIfNotAudienceA ==
    /\ probe.fn = "if_not_audience_A"
    /\ probe.calls < 2
    /\ probe' = [probe EXCEPT !.returned = if_not_audience_A_final_mask(probe.returned),
                              !.calls = probe.calls + 1]
    /\ UNCHANGED <<phase, inputs, sample_style, update_style, sample_children, filtered_df,
                   summary_children, summary_class, check_B, not_audience_A, question_search,
                   output, overview_style, pending, last, edits>>

NextInvert == CallIfNotAudienceA

SpecInvert == InitInvert /\ [][NextInvert]_vars

-----------------------------------------------------------------------------
(* corresponding applied on its own, to every lookup in the Labels sheet *)

\* a question and a value the Labels sheet does not hold
Q9 == "Q9 How did you travel to the airport?"

LabelColumns == {"Variable alias", "Column", "Component", "Question"}

\* the values looked up: every cell of the sheet, and one it does not hold
LookupValues == {dfL[k][x] : k \in 1..Len(dfL), x \in LabelColumns} \cup {Q9}

\* the questions a lookup is confined to
ScopeValues == {None} \cup {Some(dfL[k]["Question"]) : k \in 1..Len(dfL)} \cup {Some(Q9)}

InitCorresponding ==
    /\ Layout
    /\ \E value_col \in LabelColumns \ {"Column"}, value \in LookupValues,
          target_col \in LabelColumns \ {"Question"},
          initial_filter_col \in {None, Some("Question")}, initial_filter_value \in ScopeValues :
        probe = [fn |-> "corresponding", value_col |-> value_col, value |-> value,
                 target_col |-> target_col, initial_filter_col |-> initial_filter_col,
                 initial_filter_value |-> initial_filter_value, done |-> FALSE,
                 returned |-> <<>>, raised |-> None]

\* the call: returned is the list the function returns; it has no raise statement and the
\* comparisons of its two selections raise nothing, so no exception leaves it (raised: None)
CallCorresponding ==
    /\ probe.fn = "corresponding"
    /\ ~probe.done
    /\ probe' = [probe EXCEPT !.done = TRUE,
                              !.raised = None,
                              !.returned = corresponding(probe.value_col, probe.value,
                                                         probe.target_col,
                                                         probe.initial_filter_col,
                                                         probe.initial_filter_value)]
    /\ UNCHANGED <<phase, inputs, sample_style, update_style, sample_children, filtered_df,
                   summary_children, summary_class, check_B, not_audience_A, question_search,
                   output, overview_style, pending, last, edits>>

NextCorresponding == CallCorresponding

SpecCorresponding == InitCorresponding /\ [][NextCorresponding]_vars

-----------------------------------------------------------------------------
(* agg_functions.py: the functions the questions are bound to. A figure is modelled by the
   counts of its bars or segments and the number each is divided by, never by the quotient,
   and by the footnotes, the colour and the wording that go with it *)

\* df[columns] of the rows: the cells of each column, the rows in their order
Frame(rows, columns) ==
    [c \in 1..Len(columns) |-> [k \in 1..Len(rows) |-> df[rows[k]][columns[c]]]]

\* an entry of a value_counts Series: a label and its count (NaN where a reindex found none)
Entry(label, count) == [label |-> label, count |-> count]

\* sort_values: the entries of s by ascending key, equal keys in the order of s
SortedBy(s, key(_)) ==
    LET rank(i) == 1 + Cardinality({j \in 1..Len(s) :
                        key(s[j]) < key(s[i]) \/ (key(s[j]) = key(s[i]) /\ j < i)})
    IN  [p \in 1..Len(s) |-> s[CHOOSE i \in 1..Len(s) : rank(i) = p]]

\* Series.value_counts(): the counts of the distinct non-missing values, the most frequent first
value_counts(cells) ==
    LET counted(present) ==
            LET firsts == SelectSeq([k \in 1..Len(present) |-> k],
                                    LAMBDA k : \A j \in 1..(k-1) : present[j] # present[k])
            IN  [i \in 1..Len(firsts) |->
                    Entry(present[firsts[i]][1],
                          Some(Cardinality({k \in 1..Len(present) :
                                                present[k] = present[firsts[i]]})))]
    IN  SortedBy(counted(SelectSeq(cells, LAMBDA cell : cell # NaN)), LAMBDA e : 0 - e.count[1])

\* Series.reindex(index): the entries of the labels of index, NaN for a label not counted
reindex(counts, index) ==
    [i \in 1..Len(index) |->
        LET found == SelectSeq(counts, LAMBDA e : e.label = index[i])
        IN  Entry(index[i], IF found # <<>> THEN found[1].count ELSE NaN)]

\* np.nansum of the counts of entries: NaN counts as zero
nansum(entries) ==
    SeqSum([i \in 1..Len(entries) |-> IF entries[i].count = NaN THEN 0 ELSE entries[i].count[1]])

\* len(column.replace("^\s+$", nan, regex = True).dropna()): the answers that are not blank
col_length(cells) ==
    Len(SelectSeq(cells, LAMBDA cell : cell # NaN /\ (IsInt(cell[1]) \/ cell[1].s # " ")))

\* the scores of the answer scales, in their fixed order
scores == <<1, 2, 3, 4, 5>>

\* df.apply(pd.Series.value_counts, axis = 0): per column the counts of the labels that occur
\* in any column, the labels sorted
apply_value_counts(frame) ==
    LET index == SelectSeq([i \in 1..Len(scores) |-> IntV(scores[i])],
                           LAMBDA label : \E c \in 1..Len(frame) : \E k \in 1..Len(frame[c]) :
                                              frame[c][k] = <<label>>)
    IN  [c \in 1..Len(frame) |-> reindex(value_counts(frame[c]), index)]

\* what a function returns: the counts of each trace, the number the counts of each trace are
\* divided by, the sub-samples the footnotes state, further figures, and what depends on A_or_B
Figure(values, denominators, footnotes, markdown, A_or_B) ==
    [values |-> values, denominators |-> denominators, footnotes |-> footnotes,
     markdown |-> markdown,
     color |-> IF A_or_B = "A" THEN "#CE0058" ELSE "#4B4F54",
     title |-> <<"% of Audience", A_or_B>>]

\* the footnotes of the columns whose answers are fewer than the rows
Footnotes(lengths, len_df) == SelectSeq(lengths, LAMBDA length : length < len_df)

\* the labels of an answer scale in their fixed order, as the functions reindex by them
labels == [i \in 1..Len(scores) |-> IntV(scores[i])]

\* sum(x * y for x, y in zip(scores, counts)), NaN counting as zero
sumproduct(entries) ==
    SeqSum([i \in 1..Len(entries) |->
                IF entries[i].count = NaN THEN 0 ELSE scores[i] * entries[i].count[1]])

\* a faulty variant: "Others" is a category like any other, whatever the call asks for
one_col_h_bar_plot_others_kept(frame, A_or_B, kwargs) ==
    LET cut(counts) ==
            IF kwargs.cut_off # None /\ kwargs.cut_off[1] # 0 /\ kwargs.cut_off[1] < Len(counts)
            THEN SubSeq(counts, 1, kwargs.cut_off[1]) ELSE counts
    IN  Figure(<<cut(value_counts(frame[1]))>>, <<Len(frame[1])>>,
               Footnotes(<<col_length(frame[1])>>, Len(frame[1])), <<>>, A_or_B)

\* one_col_h_bar_plot: the counts of one column, the most frequent first, "Others" and what
\* follows the cut-off left out on request; each divided by len(df)
one_col_h_bar_plot(frame, A_or_B, kwargs) ==
    LET cut(counts) ==
            IF kwargs.cut_off # None /\ kwargs.cut_off[1] # 0 /\ kwargs.cut_off[1] < Len(counts)
            THEN SubSeq(counts, 1, kwargs.cut_off[1]) ELSE counts
        kept(counts) ==
            cut(IF ~kwargs.Others THEN SelectSeq(counts, LAMBDA e : e.label # StrV("Others"))
                ELSE counts)
    IN  Figure(<<kept(value_counts(frame[1]))>>, <<Len(frame[1])>>,
               Footnotes(<<col_length(frame[1])>>, Len(frame[1])), <<>>, A_or_B)

\* two_col_h_bar_plot: the counts of two columns in the fixed order of the labels, each
\* column divided by the number of its answers; for Q6 the averages of the columns as well
two_col_h_bar_plot(frame, A_or_B, kwargs) ==
    LET plot(counts, lengths) ==
            Figure(counts, lengths, Footnotes(lengths, Len(frame[1])),
                   IF kwargs.q_id = "Q6"
                   THEN [c \in 1..2 |-> <<sumproduct(counts[c]), nansum(counts[c])>>]
                   ELSE <<>>,
                   A_or_B)
        reindexed(counts) == [c \in 1..2 |-> reindex(counts[c], labels)]
    IN  plot(reindexed(apply_value_counts(frame)), [c \in 1..2 |-> col_length(frame[c])])

\* airport_sentiment: the counts of the five scores, divided by the number of answers, with
\* the average score and the share of scores 4 and 5
airport_sentiment(frame, A_or_B) ==
    LET plot(counts, length) ==
            Figure(<<counts>>, <<length>>, Footnotes(<<length>>, Len(frame[1])),
                   << <<sumproduct(counts), nansum(counts)>>,
                      <<nansum(SubSeq(counts, 4, 5)), length>> >>,
                   A_or_B)
    IN  plot(reindex(value_counts(frame[1]), labels), col_length(frame[1]))

\* horizontal_stacked_plot (Q12): per item the counts of "Worsen" (1 and 2), of the third row
\* of the counts and of "Improve" (4 and 5), every item divided by the number of answers of
\* the first column; the items by ascending "Improve"
horizontal_stacked_plot(frame, A_or_B) ==
    LET groups(counts) ==
            LET among(c, wanted) ==
                    Some(nansum(SelectSeq(counts[c], LAMBDA e : e.label.n \in wanted)))
                rows(c) == counts[c] \o <<Entry(StrV("Worsen"), among(c, {1, 2})),
                                          Entry(StrV("Improve"), among(c, {4, 5}))>>
            IN  [c \in 1..Len(frame) |->
                    <<rows(c)[Len(rows(c)) - 1], rows(c)[3], rows(c)[Len(rows(c))]>>]
        plot(response_groups, length) ==
            Figure(SortedBy(response_groups, LAMBDA item : item[3].count[1]),
                   [c \in 1..Len(frame) |-> length], Footnotes(<<length>>, Len(frame[1])),
                   <<>>, A_or_B)
    IN  plot(groups(apply_value_counts(frame)), col_length(frame[1]))

\* horizontal_grouped_plot (Q13): per item the count of "Selected" (the answer 1 in the
\* model), ascending, the "None" item (the first column in the model) moved to the front,
\* divided by len(df); it makes no footnote
horizontal_grouped_plot(frame, A_or_B) ==
    LET selected(counts) ==
            [c \in 1..Len(frame) |->
                Entry(IntV(c), reindex(counts[c], <<IntV(2), IntV(1)>>)[2].count)]
        none_first(bars) ==
            SelectSeq(bars, LAMBDA e : e.label = IntV(1))
                \o SelectSeq(bars, LAMBDA e : e.label # IntV(1))
        plot(bars) ==
            Figure(<<none_first(SortedBy(bars, LAMBDA e : IF e.count = NaN THEN TOTAL_SAMPLE + 1
                                                          ELSE e.count[1]))>>,
                   <<Len(frame[1])>>, <<>>, <<>>, A_or_B)
    IN  plot(selected(apply_value_counts(frame)))

\* a faulty variant: audience B's shares taken of the whole sample, not of the audience
generic_pie_chart_of_total(frame, A_or_B) ==
    Figure(<<apply_value_counts(frame)[1]>>,
           <<IF A_or_B = "A" THEN Len(frame[1]) ELSE TOTAL_SAMPLE>>, <<>>, <<>>, A_or_B)

\* generic_pie_chart: the counts of the first column, the labels sorted, divided by len(df);
\* it makes no footnote
generic_pie_chart(frame, A_or_B) ==
    Figure(<<apply_value_counts(frame)[1]>>, <<Len(frame[1])>>, <<>>, <<>>, A_or_B)

\* _round(x, "up", nearest)
_round(x, nearest) == IF x % nearest = 0 THEN x ELSE (x + nearest) - (x % nearest)

\* age_bins and generational_age_bins: intervals closed on the left, the last one up to the
\* highest age, rounded up to 5, and one
age_bins ==
    LET upto(_max) == <<(<<18, 25>>)>> \o [i \in 1..9 |-> <<20 + 5 * i, 25 + 5 * i>>]
                        \o <<(<<70, _max + 1>>)>>
    IN  upto(_round(ages.max, 5))
generational_age_bins ==
    LET upto(_max) == << <<18, 25>>, <<25, 41>>, <<41, 57>>, <<57, 76>>, <<76, _max + 1>> >>
    IN  upto(_round(ages.max, 5))

\* distribution_plot (Age): the numeric answers counted by age_bins and, for the pie, by
\* generational_age_bins, both divided by the number of numeric answers
distribution_plot(frame, A_or_B) ==
    LET binned(responses, bins) ==
            [b \in 1..Len(bins) |->
                Entry(bins[b], Some(Cardinality({k \in 1..Len(responses) :
                            bins[b][1] <= responses[k][1] /\ responses[k][1] < bins[b][2]})))]
        plot(responses) ==
            Figure(<<binned(responses, age_bins), binned(responses, generational_age_bins)>>,
                   <<Len(responses), Len(responses)>>,
                   Footnotes(<<Len(responses)>>, Len(frame[1])), <<>>, A_or_B)
    IN  plot(SelectSeq(frame[1], LAMBDA cell : cell # NaN))

\* q_functions[q_id]["function"](df, A_or_B, **kwargs), for the functions above
function(name, frame, A_or_B, kwargs) ==
    CASE name = "one_col_h_bar_plot" -> one_col_h_bar_plot(frame, A_or_B, kwargs)
      [] name = "two_col_h_bar_plot" -> two_col_h_bar_plot(frame, A_or_B, kwargs)
      [] name = "airport_sentiment" -> airport_sentiment(frame, A_or_B)
      [] name = "horizontal_stacked_plot" -> horizontal_stacked_plot(frame, A_or_B)
      [] name = "horizontal_grouped_plot" -> horizontal_grouped_plot(frame, A_or_B)
      [] name = "generic_pie_chart" -> generic_pie_chart(frame, A_or_B)
      [] name = "distribution_plot" -> distribution_plot(frame, A_or_B)

-----------------------------------------------------------------------------
(* a question's function applied on its own, to every audience of ten or more of the rows *)

\* a call: the function, the columns of the question and the keyword arguments
Call(name, columns, kwargs) == [name |-> name, columns |-> columns, kwargs |-> kwargs]
NoKwargs == [q_id |-> ""]

Calls ==
    { Call("one_col_h_bar_plot", columns, [q_id |-> "Q4", Others |-> Others, cut_off |-> cut_off]) :
        columns \in {<<"q6_1">>, <<"q5_2">>, <<"q15">>}, Others \in BOOLEAN,
        cut_off \in {None, Some(2)} }
    \cup { Call("two_col_h_bar_plot", columns, [q_id |-> q_id]) :
        columns \in {<<"q5_1", "q5_2">>, <<"q5_2", "q5_1">>}, q_id \in {"Q5", "Q6"} }
    \cup { Call(name, columns, NoKwargs) :
        name \in {"airport_sentiment", "generic_pie_chart"},
        columns \in {<<"q6_1">>, <<"q5_2">>} }
    \cup { Call(name, columns, NoKwargs) :
        name \in {"horizontal_stacked_plot", "horizontal_grouped_plot"},
        columns \in {<<"q5_1", "q5_2">>, <<"q5_2", "q5_1">>} }
    \cup { Call("distribution_plot", <<"age">>, NoKwargs) }

\* the audiences: the rows a mask of ten or more true entries selects
Audiences == {Loc(mask) : mask \in {m \in [1..TOTAL_SAMPLE -> BOOLEAN] : CountTrue(m) >= MIN_SAMPLE}}

InitFunction ==
    /\ Layout
    /\ \E call \in Calls, rows \in Audiences, A_or_B \in Cohorts :
        probe = [fn |-> "function", call |-> call, rows |-> rows, A_or_B |-> A_or_B,
                 done |-> FALSE, returned |-> <<>>]

CallFunction ==
    /\ probe.fn = "function"
    /\ ~probe.done
    /\ probe' = [probe EXCEPT !.done = TRUE,
                              !.returned = function(probe.call.name,
                                                    Frame(probe.rows, probe.call.columns),
                                                    probe.A_or_B, probe.call.kwargs)]
    /\ UNCHANGED <<phase, inputs, sample_style, update_style, sample_children, filtered_df,
                   summary_children, summary_class, check_B, not_audience_A, question_search,
                   output, overview_style, pending, last, edits>>

NextFunction == CallFunction

SpecFunction == InitFunction /\ [][NextFunction]_vars

-----------------------------------------------------------------------------
(* the update buttons pressed on their own: both audiences hold what earlier updates stored
   for other selections, their filters have since been edited, and the buttons are shown *)

\* the selections of an audience at the press
UpdateInputs ==
    LET edited(all) ==
            { all,
              [all EXCEPT !["market-"] = Some(Lookup(market_regions, "Europe"))],
              [all EXCEPT !["market-"] = Some(<<>>)],
              [all EXCEPT !["custom_selected_question-"] = Some(Q15),
                          !["custom_selected_item-"] = Some(<<Q15>>),
                          !["custom_selected_response-"] = Some(<<StrV("ai")>>)],
              [all EXCEPT !["custom_selected_question-"] = Some(Q5),
                          !["custom_selected_item-"] = Some(<<"Lounge", "Shops">>),
                          !["custom_selected_response-"] =
                                Some(<<IntV(0), IntV(1), IntV(2), IntV(3)>>)] }
    IN  edited(AllValues)

\* the selections the audience was last updated from
PriorInputs ==
    LET edited(all) ==
            { all,
              [all EXCEPT !["market-"] = Some(Lookup(market_regions, "Europe"))],
              [all EXCEPT !["market-"] = Some(<<>>)] }
    IN  edited(AllValues)

InitUpdate ==
    \E now \in [Cohorts -> UpdateInputs], before \in [Cohorts -> PriorInputs],
       checkbox \in BOOLEAN, inverse \in BOOLEAN :
        LET held(r) ==
                /\ sample_children = [X \in Cohorts |-> r[X].sample_update]
                /\ filtered_df = [X \in Cohorts |-> json_dumps(r[X].final_mask)]
                /\ summary_children = [X \in Cohorts |-> r[X].summaries]
                /\ summary_class = [X \in Cohorts |-> r[X].summary_colors]
        IN  /\ held([X \in Cohorts |-> filter_and_summaries(ColumnMap(before[X]))])
            /\ phase = "running"
            /\ inputs = now
            /\ sample_style = [X \in Cohorts |->
                                  IF X = "A" THEN Style("none", "unset")
                                  ELSE Style("none", IF checkbox THEN "1" ELSE "0")]
            /\ update_style = [X \in Cohorts |->
                                  IF X = "A" THEN Style("inline", "unset")
                                  ELSE Style("inline", IF checkbox THEN "1" ELSE "0")]
            /\ check_B = checkbox
            /\ not_audience_A = inverse
            /\ question_search = None
            /\ output = [X \in Cohorts |-> NoChildren]
            /\ overview_style = "none"
            /\ pending = <<>>
            /\ last = UserEvent
            /\ edits = 0
            /\ probe = NoProbe

NextUpdate ==
    \/ PressUpdate
    \/ SelectFilter
    \/ RunInputChangeOrButtonPress
    \/ RunProduceGraphic
    \/ RunCustomSelectedQuestion
    \/ RunCustomSelectedItem

SpecUpdate == InitUpdate /\ [][NextUpdate]_vars

-----------------------------------------------------------------------------
(* Properties of filter_and_summaries (SpecFilter) *)

Called == probe.fn = "filter_and_summaries" /\ probe.done

\* C1 (as claimed): for every selection with at least one active predicate, the mask entry of
\* row i is true if and only if every predicate the function built is true for row i.
C1_MaskIsConjunction ==
    (Called /\ probe.masks # <<>>) =>
        \A i \in Rows :
            probe.returned.final_mask[i] <=>
                (\A k \in 1..Len(probe.masks) : probe.masks[k][i] = <<TRUE>>)

\* the number of predicates a selection should contribute: none for "All", for an empty list,
\* for no travel type and for an incomplete Behavioural filter
ExpectedPredicates(column_map) ==
    LET list(col_name, all) ==
            IF column_map[col_name][1] = all \/ column_map[col_name][1] = <<>> THEN 0 ELSE 1
        range(col_name, all) == IF column_map[col_name][1] = all THEN 0 ELSE 2
        type(col_name) == IF column_map[col_name] = None THEN 0 ELSE 1
        complete == /\ column_map["question"] # None
                    /\ column_map["items"] # None /\ column_map["items"] # <<<<>>>>
                    /\ column_map["responses"] # None /\ column_map["responses"] # <<<<>>>>
    IN  list("Market", Lookup(market_regions, "All")) + list("Gender", Lookup(gender_groups, "All"))
        + range("Age", Lookup(age_groups, "All")) + range("Income", Lookup(income_groups, "All"))
        + range("Travel", Lookup(travel_groups, "All"))
        + type("Travel purpose") + type("Travel domain")
        + (IF complete THEN Len(column_map["items"][1]) ELSE 0)

\* C9 (as claimed): only non-"All", non-empty selections contribute predicates; a dimension
\* whose selection is "All" or empty contributes none, so with only such dimensions no
\* respondent is excluded.
C9_OnlySelectionsContribute ==
    Called =>
        /\ Len(probe.masks) = ExpectedPredicates(probe.column_map)
        /\ ExpectedPredicates(probe.column_map) = 0 => probe.returned.final_mask = <<>>

\* the column of an item within a question, read off the Labels sheet
ScopedColumn(question, item) ==
    LET row == CHOOSE k \in 1..Len(dfL) : dfL[k]["Question"] = question /\ dfL[k]["Component"] = item
    IN  dfL[row]["Column"]

\* the test the Behavioural filter makes of row i: membership, or containment for Q15
BehaviouralTest(question, column, responses, i) ==
    LET cell == df[i][column]
    IN  /\ cell # NaN
        /\ IF question = Q15
           THEN /\ ~IsInt(cell[1])
                /\ \E k \in 1..Len(responses) : Occurs(Chars(responses[k].s), Chars(cell[1].s))
           ELSE \E k \in 1..Len(responses) : responses[k] = cell[1]

BehaviouralActive(column_map) ==
    /\ column_map["question"] # None
    /\ column_map["items"] # None /\ Len(column_map["items"][1]) >= 1
    /\ column_map["responses"] # None /\ Len(column_map["responses"][1]) >= 1

\* C10: the Behavioural filter is active only with a question, an item and a response; active,
\* it adds one predicate per item, true for a row exactly when the value in the item's column
\* (within the question) is one of the responses (for Q15: contains one); inactive, it adds
\* none and its summary is "-".
C10_BehaviouralPredicates ==
    Called =>
        LET column_map == probe.column_map
        IN  IF BehaviouralActive(column_map)
            THEN LET question == column_map["question"][1]
                     items == column_map["items"][1]
                     responses == column_map["responses"][1]
                 IN  /\ Len(probe.behavioural) = Len(items)
                     /\ probe.returned.summaries[7] # <<"-">>
                     /\ \A k \in 1..Len(items) : \A i \in Rows :
                            (probe.behavioural[k][i] = <<TRUE>>) <=>
                                BehaviouralTest(question, ScopedColumn(question, items[k]),
                                                responses, i)
            ELSE /\ probe.behavioural = <<>>
                 /\ probe.returned.summaries[7] = <<"-">>

\* a two-item Behavioural filter has been applied and selects some, not all, rows by an item
C10_Witness ==
    /\ Called
    /\ BehaviouralActive(probe.column_map)
    /\ Len(probe.behavioural) = 2
    /\ \E i \in Rows : probe.behavioural[1][i] = <<TRUE>>
    /\ \E i \in Rows : probe.behavioural[1][i] = <<FALSE>>

\* the range selected in a numeric dimension has equal bounds and is none of its options
EqualBounds(column_map, col_name) ==
    /\ column_map[col_name][1][1] = column_map[col_name][1][2]
    /\ \A k \in 1..Len(cols_options(col_name)) :
            cols_options(col_name)[k].value # column_map[col_name][1]

\* C14 (as claimed): for a range with equal bounds [v, v] that is no option, the summary of the
\* dimension is exactly the value v ("25" for [25, 25]).
C14_EqualBoundsBareValue ==
    Called =>
        \A k \in 3..5 :
            EqualBounds(probe.column_map, data_cols[k])
            => probe.returned.summaries[k] = <<ToString(probe.column_map[data_cols[k]][1][1])>>

\* C14 (amended): for such a range the summary is the single value with the unit of the
\* dimension ("25 years", "$45", "2 trips"), never the dash-range form.
C14_EqualBoundsSingleValue ==
    Called =>
        \A k \in 3..5 :
            EqualBounds(probe.column_map, data_cols[k]) =>
                LET v == ToString(probe.column_map[data_cols[k]][1][1])
                    summary == probe.returned.summaries[k]
                IN  /\ summary = (CASE data_cols[k] = "Age" -> <<v, "years">>
                                    [] data_cols[k] = "Income" -> <<"$", v>>
                                    [] data_cols[k] = "Travel" -> <<v, "trips">>)
                    /\ \A j \in 1..Len(summary) : summary[j] # "-"

\* the function was called with equal bounds in all three numeric dimensions
C14_Witness ==
    /\ Called
    /\ \A k \in 3..5 : EqualBounds(probe.column_map, data_cols[k])
    /\ probe.returned.summaries[3] = <<"25", "years">>

\* the list selected in the Market or the Gender filter is none of the filter's options
NoPreset(column_map, col_name) ==
    \A k \in 1..Len(cols_options(col_name)) :
        cols_options(col_name)[k].value # column_map[col_name][1]

\* C15: a market or gender selection that is none of the presets is no error: the function
\* returns, the dimension's summary is the selected values themselves, joined, and a predicate
\* is applied that is true for exactly the rows whose value is one of the selected values.
C15_RawListSelection ==
    Called =>
        \A d \in 1..2 :
            LET col_name == data_cols[d]
                value == probe.column_map[col_name][1]
                member(i) == /\ df[i][DemoColumn(col_name)] # NaN
                             /\ \E k \in 1..Len(value) : value[k] = df[i][DemoColumn(col_name)][1]
            IN  NoPreset(probe.column_map, col_name) =>
                    /\ probe.returned.summaries[d] = value
                    /\ \E m \in 1..Len(probe.masks) :
                            \A i \in Rows : probe.masks[m][i] = <<member(i)>>
                    /\ \A i \in Rows : probe.returned.final_mask[i] => member(i)

\* the call was made with a market list and a gender list of two values each that are no
\* presets; the summaries are the lists and some, not all, rows are selected
C15_Witness ==
    /\ Called
    /\ probe.column_map["Market"] = <<(<<"US", "UK">>)>>
    /\ probe.column_map["Gender"] = <<(<<"Male", "Prefer not to answer">>)>>
    /\ NoPreset(probe.column_map, "Market") /\ NoPreset(probe.column_map, "Gender")
    /\ probe.returned.summaries[1] = <<"US", "UK">>
    /\ probe.returned.summaries[2] = <<"Male", "Prefer not to answer">>
    /\ \E i \in Rows : probe.returned.final_mask[i]
    /\ \E i \in Rows : ~probe.returned.final_mask[i]

-----------------------------------------------------------------------------
(* Properties of if_not_audience_A (SpecInvert) *)

\* C4: the inverse negates every element of a non-empty mask, so applied twice it gives the
\* mask back; of the empty list it is the all-false list of length TOTAL_SAMPLE, not empty.
C4_InverseOfMask ==
    probe.fn = "if_not_audience_A" =>
        /\ (probe.calls = 1 /\ probe.final_mask # <<>>) =>
                /\ Len(probe.returned) = Len(probe.final_mask)
                /\ \A i \in 1..Len(probe.final_mask) : probe.returned[i] = ~probe.final_mask[i]
        /\ (probe.calls = 1 /\ probe.final_mask = <<>>) =>
                /\ Len(probe.returned) = TOTAL_SAMPLE
                /\ \A i \in 1..TOTAL_SAMPLE : probe.returned[i] = FALSE
        /\ (probe.calls = 2 /\ probe.final_mask # <<>>) => probe.returned = probe.final_mask

\* the inverse has been applied twice to a mask that selects some rows and not others
C4_Witness ==
    /\ probe.fn = "if_not_audience_A"
    /\ probe.calls = 2
    /\ probe.final_mask # <<>>
    /\ \E i, j \in 1..TOTAL_SAMPLE : probe.final_mask[i] /\ ~probe.final_mask[j]
    /\ probe.returned = probe.final_mask

-----------------------------------------------------------------------------
(* Properties of the callbacks (Spec) *)

update_A == <<Id("update-audience-", "A")>>
update_B == <<Id("update-audience-", "B")>>

\* the last step was a run of the callback, triggered by these inputs
JustRan(cb, triggered) == last.cb = cb /\ last.triggered = triggered

\* the number of rows a stored mask selects: all of them for "[]"
RowsSelected(stored) ==
    IF stored = <<>> THEN TOTAL_SAMPLE
    ELSE Cardinality({i \in 1..Len(stored) : stored[i] = "true"})

\* the inverse of a stored mask, as JSON
InverseOf(stored) ==
    IF stored = <<>> THEN [i \in 1..TOTAL_SAMPLE |-> "false"]
    ELSE [i \in 1..Len(stored) |-> IF stored[i] = "true" THEN "false" ELSE "true"]

\* C2: the mask stored for each audience is "[]" or a list of TOTAL_SAMPLE booleans.
C2_StoredMaskShape ==
    \A X \in Cohorts :
        \/ filtered_df[X] = <<>>
        \/ /\ Len(filtered_df[X]) = TOTAL_SAMPLE
           /\ \A i \in 1..TOTAL_SAMPLE : filtered_df[X][i] \in {"true", "false"}

\* both audiences hold a full-length mask, B's made with Not Audience A checked
C2_Witness ==
    /\ check_B /\ not_audience_A
    /\ Len(filtered_df["A"]) = TOTAL_SAMPLE
    /\ Len(filtered_df["B"]) = TOTAL_SAMPLE
    /\ edits > 0

\* every demographic input at "All", no travel type, the Behavioural filter incomplete
AllSelected(values) ==
    /\ values["market-"] = Some(Lookup(market_regions, "All"))
    /\ values["gender-"] = Some(Lookup(gender_groups, "All"))
    /\ values["age-"] = Some(Lookup(age_groups, "All"))
    /\ values["income-"] = Some(Lookup(income_groups, "All"))
    /\ values["travel-"] = Some(Lookup(travel_groups, "All"))
    /\ values["purpose-type-"] = None
    /\ values["domain-type-"] = None
    /\ \/ values["custom_selected_question-"] = None
       \/ values["custom_selected_item-"] \in {None, <<<<>>>>}
       \/ values["custom_selected_response-"] \in {None, <<<<>>>>}

C5_BIsInverseOfStoredA ==
    (/\ last.cb = "on_input_change_or_button_press"
     /\ not_audience_A
     /\ \/ last.triggered = update_B
        \/ last.triggered = update_A /\ check_B)
    => filtered_df["B"] = InverseOf(filtered_df["A"])

\* the callback run that is next is the press of an update button
UpdateRunIsNext ==
    /\ pending # <<>>
    /\ Head(pending).cb = "on_input_change_or_button_press"
    /\ Head(pending).triggered \in {update_A, update_B}

\* the callback run that is next is for a change of a filter input of audience X
FilterRunIsNext(X) ==
    /\ pending # <<>>
    /\ Head(pending).cb = "on_input_change_or_button_press"
    /\ \E c \in InputSet : Head(pending).triggered = <<Id(c, X)>>

\* C6: the stored masks, sample texts and summaries change only in the run for an update
\* press; the run for a change of a filter input of X only hides X's sample label and shows
\* X's update button.
C6_OnlyUpdateRecomputes ==
    [][ /\ ~UpdateRunIsNext =>
            /\ filtered_df' = filtered_df
            /\ sample_children' = sample_children
            /\ summary_children' = summary_children
            /\ summary_class' = summary_class
        /\ \A X \in Cohorts : FilterRunIsNext(X) =>
            /\ sample_style'[X] = [sample_style[X] EXCEPT !.display = "none"]
            /\ update_style'[X] = [update_style[X] EXCEPT !.display = "inline"]
            /\ \A Y \in Cohorts \ {X} :
                  sample_style'[Y] = sample_style[Y] /\ update_style'[Y] = update_style[Y]
      ]_vars

\* a filter of B was changed: B's update is pending and nothing was recomputed
C6_Witness ==
    /\ last.cb = "on_input_change_or_button_press"
    /\ \E c \in InputSet : last.triggered = <<Id(c, "B")>>
    /\ inputs["B"] # AllValues
    /\ sample_style["B"].display = "none"
    /\ update_style["B"].display = "inline"
    /\ filtered_df["B"] = <<>>
    /\ sample_children["B"].n = TOTAL_SAMPLE

\* what the audience holds is what filter_and_summaries makes of these inputs
HoldsResultOf(X, values) ==
    LET r == filter_and_summaries(ColumnMap(values))
    IN  /\ json_loads(filtered_df[X]) = r.final_mask
        /\ sample_children[X] = r.sample_update
        /\ summary_children[X] = r.summaries
        /\ summary_class[X] = r.summary_colors

\* the mask the audience holds is the inverse of the one filter_and_summaries makes of these inputs
HoldsInverseOf(X, values) ==
    LET r == filter_and_summaries(ColumnMap(values))
    IN  filtered_df[X] = InverseOf(json_dumps(r.final_mask))

ButtonHiddenLabelShown(X) ==
    update_style[X].display = "none" /\ sample_style[X].display = "inline"

\* C7 (as claimed): pressing an audience's update button replaces its mask, sample and
\* summaries by the result of filter_and_summaries on its own ten inputs, hides the button and
\* shows the label.
C7_UpdateFromOwnInputs ==
    \A X \in Cohorts :
        JustRan("on_input_change_or_button_press", <<Id("update-audience-", X)>>)
        => HoldsResultOf(X, inputs[X]) /\ ButtonHiddenLabelShown(X)

\* C7 (amended): so it is for update-audience-A, and for update-audience-B while Not Audience A
\* is unchecked; while it is checked, update-audience-B stores the inverse of the result of
\* filter_and_summaries on audience A's inputs (button hidden and label shown likewise).
C7_UpdateFromInputs ==
    \A X \in Cohorts :
        JustRan("on_input_change_or_button_press", <<Id("update-audience-", X)>>)
        => /\ ButtonHiddenLabelShown(X)
           /\ IF X = "A" \/ ~not_audience_A
              THEN HoldsResultOf(X, inputs[X])
              ELSE HoldsInverseOf("B", inputs["A"])

\* A was updated after a filter edit: it holds a mask, and its summaries are not all "All"
C7_Witness ==
    /\ JustRan("on_input_change_or_button_press", update_A)
    /\ edits > 0
    /\ filtered_df["A"] # <<>>
    /\ \E k \in 1..Len(summary_children["A"]) : summary_children["A"][k] # <<"All">>
                                                  /\ summary_children["A"][k] # <<"-">>

\* C8: wherever produce_graphic makes an audience's content from its rows, it calls the
\* question's function if and only if the stored mask selects at least 10 rows, and gives the
\* "Please ensure sample comprises 10+ individuals." message for 9 rows or fewer.
C8_TenRowsOrMessage ==
    \A X \in Cohorts :
        (last.cb = "produce_graphic" /\ X \in last.rendered) =>
            LET n == RowsSelected(filtered_df[X])
            IN  /\ output[X].kind \in {"graphic", "message"}
                /\ output[X].kind = "graphic" <=> n >= 10
                /\ output[X].kind = "graphic" => Len(output[X].rows) = n
                /\ output[X].kind = "message" <=> n <= 9

\* an audience of exactly 9 rows was given the message
C8_Witness ==
    /\ last.cb = "produce_graphic"
    /\ \E X \in last.rendered :
        /\ RowsSelected(filtered_df[X]) = 9
        /\ output[X].kind = "message"

\* the audience was just recomputed: by its own update button, or, for B, by audience A's
\* while check-B and Not Audience A are both checked
JustUpdated(X) ==
    /\ last.cb = "on_input_change_or_button_press"
    /\ \/ last.triggered = <<Id("update-audience-", X)>>
       \/ X = "B" /\ last.triggered = update_A /\ check_B /\ not_audience_A

\* C11 (as claimed): after an update of an audience, the sample count shown for it is the number
\* of rows its stored mask selects (all of them for "[]") and the percentage shown is that
\* count over TOTAL_SAMPLE; also for B made as the inverse of A, whatever A's mask.
C11_SampleMatchesMask ==
    \A X \in Cohorts :
        JustUpdated(X) =>
            /\ sample_children[X].n = RowsSelected(filtered_df[X])
            /\ sample_children[X].pct = RoundHalfEven(100 * sample_children[X].n, TOTAL_SAMPLE)

-----------------------------------------------------------------------------
(* Properties of the update buttons (SpecUpdate) *)

\* the audience has been updated from its own inputs since they were last edited
Fresh(X) == Ready /\ ButtonHiddenLabelShown(X) /\ (X = "B" => ~not_audience_A)

\* what the audience holds
Held(X) == <<filtered_df[X], sample_children[X], summary_children[X]>>

\* what a press of the audience's update button would store now
Pressed(X) ==
    LET stored(ret) ==
            <<ret.filtered_df[X], ret.sample_children[X], ret.summary_children[X]>>
    IN  stored(on_input_change_or_button_press(<<Id("update-audience-", X)>>))

\* C12: an update from an audience's own inputs stores a mask, a sample count and summaries
\* that only its inputs determine: two audiences updated from equal inputs hold the same, after
\* different earlier masks; and pressing again, whatever has since become of the stored masks
\* and of the other audience, would store what is held.
C12_UpdateIsDeterministic ==
    /\ \A X, Y \in Cohorts : (Fresh(X) /\ Fresh(Y) /\ inputs[X] = inputs[Y]) => Held(X) = Held(Y)
    /\ \A X \in Cohorts :
        Fresh(X) => Pressed(X) = <<Some(filtered_df[X]), Some(sample_children[X]),
                                   Some(summary_children[X])>>

\* both audiences were updated from equal, edited inputs and hold the same mask
C12_Witness ==
    /\ Fresh("A") /\ Fresh("B")
    /\ inputs["A"] = inputs["B"]
    /\ inputs["A"] # AllValues
    /\ filtered_df["A"] # <<>>
    /\ Held("A") = Held("B")

\* the step is audience B's: the user edits one of B's filters, or the callback run that is
\* next was triggered by one of B's inputs or by update-audience-B
StepOfB ==
    \/ inputs'["B"] # inputs["B"]
    \/ /\ pending # <<>>
       /\ Head(pending).cb # "produce_graphic"
       /\ \/ Head(pending).triggered = update_B
          \/ \E c \in InputSet : Head(pending).triggered = <<Id(c, "B")>>

\* the callback run that is next is the press of update-audience-A
UpdateARunIsNext ==
    /\ pending # <<>>
    /\ Head(pending).cb = "on_input_change_or_button_press"
    /\ Head(pending).triggered = update_A

\* C13: a step of audience B (an edit of one of its filters, the callback runs that follow, the
\* press of update-audience-B) leaves A's stored mask, sample count, summaries, label and
\* button as they are; the press of update-audience-A leaves B's stored mask, sample count and
\* summaries as they are unless check-B and Not Audience A are both checked.
C13_AudiencesIndependent ==
    [][ /\ StepOfB =>
            /\ filtered_df'["A"] = filtered_df["A"]
            /\ sample_children'["A"] = sample_children["A"]
            /\ summary_children'["A"] = summary_children["A"]
            /\ summary_class'["A"] = summary_class["A"]
            /\ sample_style'["A"] = sample_style["A"]
            /\ update_style'["A"] = update_style["A"]
            /\ inputs'["A"] = inputs["A"]
        /\ (UpdateARunIsNext /\ ~(check_B /\ not_audience_A)) =>
            /\ filtered_df'["B"] = filtered_df["B"]
            /\ sample_children'["B"] = sample_children["B"]
            /\ summary_children'["B"] = summary_children["B"]
      ]_vars

\* update-audience-B has replaced B's mask while A's edit is still unconfirmed and A holds
\* the mask of an earlier update
C13_Witness ==
    /\ JustRan("on_input_change_or_button_press", update_B)
    /\ ~not_audience_A
    /\ filtered_df["B"] # <<>>
    /\ filtered_df["A"] # <<>>
    /\ filtered_df["A"] # filtered_df["B"]
    /\ update_style["A"].display = "inline"

-----------------------------------------------------------------------------
(* Properties of corresponding (SpecCorresponding) *)

Looked == probe.fn = "corresponding" /\ probe.done

\* a lookup is confined to a question when both optional arguments are given
Scoped == probe.initial_filter_col # None /\ probe.initial_filter_value # None

\* the rows of the Labels sheet a lookup is about, in the order of the sheet
Entries ==
    LET entry(k) == /\ dfL[k][probe.value_col] = probe.value
                    /\ Scoped => dfL[k][probe.initial_filter_col[1]] = probe.initial_filter_value[1]
    IN  SelectSeq([k \in 1..Len(dfL) |-> k], entry)

\* C16: corresponding returns exactly the target values, in the order of the sheet, of the
\* entries whose value column holds the value and, with a scope, whose scope column holds the
\* scope value; a column it returns for a scope is a column of that question; and the item
\* lookups of the mask builder, made with the selected question as scope, give the column of
\* the item within that question.
C16_CorrespondingInScope ==
    Looked =>
        /\ probe.returned = [j \in 1..Len(Entries) |-> dfL[Entries[j]][probe.target_col]]
        /\ (Scoped /\ probe.target_col = "Column") =>
                \A j \in 1..Len(probe.returned) : \A k \in 1..Len(dfL) :
                    dfL[k]["Column"] = probe.returned[j] =>
                        dfL[k]["Question"] = probe.initial_filter_value[1]
        /\ \A k \in 1..Len(dfL) :
                ItemColumn(dfL[k]["Component"], dfL[k]["Question"]) = dfL[k]["Column"]

\* the column of the component Lounge, an item of two questions, was looked up within Q5 and
\* the one column of Q5 returned
C16_Witness ==
    /\ Looked
    /\ Scoped
    /\ probe.value_col = "Component" /\ probe.value = "Lounge"
    /\ probe.target_col = "Column"
    /\ probe.initial_filter_value = Some(Q5)
    /\ probe.returned = <<"q5_1">>
    /\ Cardinality({k \in 1..Len(dfL) : dfL[k]["Component"] = "Lounge"}) = 2

\* C17 (as claimed): a lookup that no entry of the sheet matches ends in an error naming the
\* value looked up and the scope, and returns no list.
C17_UnresolvedFailsFast ==
    (Looked /\ Entries = <<>>) =>
        probe.raised = Some(<<probe.value, probe.initial_filter_value>>)

-----------------------------------------------------------------------------
(* Properties of the questions' functions (SpecFunction) *)

Returned == probe.fn = "function" /\ probe.done

\* the number of rows of the audience with an answer in a column: not missing, not blank
Answers(column) ==
    Cardinality({k \in 1..Len(probe.rows) :
        LET cell == df[probe.rows[k]][column]
        IN  cell # NaN /\ (column = "q15" => cell # T(" "))})

\* the column whose counts a trace of the figure shows
ColumnOfTrace(t) ==
    IF t <= Len(probe.call.columns) /\ probe.call.name # "horizontal_grouped_plot"
    THEN probe.call.columns[t] ELSE probe.call.columns[1]

\* C18 (as claimed): whichever the function, when the rows of the audience with an answer
\* to the question are fewer than its rows, the counts are divided by the number of rows with
\* an answer and a footnote states that number.
C18_SubSampleIsDenominator ==
    Returned =>
        \A t \in 1..Len(probe.returned.denominators) :
            Answers(ColumnOfTrace(t)) < Len(probe.rows) =>
                /\ probe.returned.denominators[t] = Answers(ColumnOfTrace(t))
                /\ \E f \in 1..Len(probe.returned.footnotes) :
                        probe.returned.footnotes[f] = Answers(ColumnOfTrace(t))

\* what C18 says, of the three functions that divide by the answers of the trace's column
C18_HoldsOfThree ==
    (Returned /\ probe.call.name \in {"two_col_h_bar_plot", "airport_sentiment",
                                      "distribution_plot"}) =>
        \A t \in 1..Len(probe.returned.denominators) :
            Answers(ColumnOfTrace(t)) < Len(probe.rows) =>
                /\ probe.returned.denominators[t] = Answers(ColumnOfTrace(t))
                /\ \E f \in 1..Len(probe.returned.footnotes) :
                        probe.returned.footnotes[f] = Answers(ColumnOfTrace(t))

\* the functions that break one column down by its single answer, all categories shown
SingleSelect ==
    \/ probe.call.name \in {"generic_pie_chart", "airport_sentiment", "distribution_plot"}
    \/ probe.call.name = "one_col_h_bar_plot" /\ probe.call.kwargs.cut_off = None

\* C19 (as claimed): for an audience of ten rows or more, the counts of a single-answer
\* breakdown add up to the number they are divided by (the shares add up to 1.0), with rows
\* without an answer as well; and no count of a stacked or grouped breakdown exceeds the
\* number it is divided by (no share above 1.0).
C19_SharesAddUp ==
    (Returned /\ Len(probe.rows) >= MIN_SAMPLE) =>
        \A t \in 1..Len(probe.returned.denominators) :
            /\ SingleSelect =>
                    nansum(probe.returned.values[t]) = probe.returned.denominators[t]
            /\ probe.call.name \in {"horizontal_stacked_plot", "horizontal_grouped_plot"} =>
                    \A i \in 1..Len(probe.returned.values[t]) :
                        \/ probe.returned.values[t][i].count = NaN
                        \/ probe.returned.values[t][i].count[1] <= probe.returned.denominators[t]

\* what the function returns for the other audience label, same rows and arguments
ForOtherLabel ==
    function(probe.call.name, Frame(probe.rows, probe.call.columns),
             IF probe.A_or_B = "A" THEN "B" ELSE "A", probe.call.kwargs)

\* C20: the audience label given to a function changes none of the values it computes: the
\* counts and their order, the numbers they are divided by, the footnotes and the averages are
\* those of the other label for the same rows; the colour and the wording are what differ.
C20_LabelChangesNoValue ==
    Returned =>
        /\ probe.returned.values = ForOtherLabel.values
        /\ probe.returned.denominators = ForOtherLabel.denominators
        /\ probe.returned.footnotes = ForOtherLabel.footnotes
        /\ probe.returned.markdown = ForOtherLabel.markdown
        /\ probe.returned.color # ForOtherLabel.color
        /\ probe.returned.title # ForOtherLabel.title

\* the pie chart was made for audience B of eleven rows, one of them without an answer
C20_Witness ==
    /\ Returned
    /\ probe.call.name = "generic_pie_chart"
    /\ probe.A_or_B = "B"
    /\ Len(probe.rows) = 11
    /\ Answers(probe.call.columns[1]) = 10
    /\ probe.returned.denominators = <<11>>
    /\ nansum(probe.returned.values[1]) = 10

-----------------------------------------------------------------------------
(* Properties of the displayed content (Spec) *)

\* output-X shows something: neither None nor the empty string
Shown(X) == output[X].kind \notin {"None", "empty"}

\* what produce_graphic makes of audience X's stored mask for the selected question
ContentOf(X) ==
    Render(filtered_df[X], corresponding("Variable alias", question_ids(question_search[1]),
                                          "Column", None, None),
           X, question_ids(question_search[1]))

\* C21: once the callbacks have run, the content an audience shows is the content made from
\* its stored mask as it is now for the question selected now (the question's function on
\* its rows, or the message below ten rows): no content outlives a change of mask or question.
C21_ContentIsCurrent ==
    Ready =>
        \A X \in Cohorts :
            Shown(X) => TruthyStr(question_search) /\ output[X] = ContentOf(X)

\* with a question selected, an update has just stored a mask for audience A after an edit
\* and produce_graphic, run for the store, made the content A shows
C21_Witness ==
    /\ Ready
    /\ last.cb = "produce_graphic"
    /\ last.triggered = <<Id("filtered-df-", "A")>>
    /\ TruthyStr(question_search)
    /\ filtered_df["A"] # <<>>
    /\ edits = 1
    /\ Shown("A")
    /\ output["A"] = ContentOf("A")
    /\ update_style["A"].display = "none"


\* C27: once the callbacks have run, audience B shows nothing while check-B is unchecked
C27_UncheckedBShowsNothing ==
    Ready => (~check_B => ~Shown("B"))

\* check-B is unchecked and audience B shows the question's content made for a pressed update-B
C27_Counterexample ==
    /\ Ready
    /\ ~check_B
    /\ Shown("B")
    /\ last.cb = "produce_graphic"
    /\ last.triggered = <<Id("filtered-df-", "B")>>


\* C28: once the callbacks have run with a question selected and the overview hidden,
\* audience A shows the question's content for its stored mask, and so does audience B
\* when check-B is checked
C28_QuestionShownWhenOverviewHidden ==
    (Ready /\ TruthyStr(question_search) /\ overview_style = "none") =>
        /\ output["A"] = ContentOf("A")
        /\ check_B => output["B"] = ContentOf("B")

\* the overview was closed with a question selected and audience A shows nothing
C28_Counterexample ==
    /\ Ready
    /\ TruthyStr(question_search)
    /\ overview_style = "none"
    /\ last.cb = "produce_graphic"
    /\ last.triggered = <<Id("close-overview", "")>>
    /\ ~Shown("A")


\* C29: once the callbacks have run with not-audience-A checked and no update button
\* displayed, filtered-df-B holds the inverse of the mask filtered-df-A holds
C29_BIsInverseOfA ==
    (/\ Ready
     /\ not_audience_A
     /\ \A X \in Cohorts : update_style[X].display = "none") =>
        filtered_df["B"] = json_dumps(if_not_audience_A_final_mask(json_loads(filtered_df["A"])))

\* not-audience-A is checked, check-B is not, update-audience-A has just been pressed and
\* filtered-df-B still holds the inverse of an earlier mask
C29_Counterexample ==
    /\ Ready
    /\ not_audience_A
    /\ ~check_B
    /\ \A X \in Cohorts : update_style[X].display = "none"
    /\ last.cb = "produce_graphic"
    /\ last.triggered = <<Id("filtered-df-", "A")>>
    /\ filtered_df["B"] # json_dumps(if_not_audience_A_final_mask(json_loads(filtered_df["A"])))


-----------------------------------------------------------------------------
(* Properties of the numeric ranges (SpecFilter) *)

\* the range selected in a numeric dimension is the range of the dimension's option "All"
AllRange(column_map, col_name) ==
    column_map[col_name][1] = Lookup(cols_options(col_name), <<"All">>)

\* the number of masks the dimensions data_cols[1..n] have appended, told from the selection
\* and the returned summaries: one for a market or gender list that is not "All", two for a
\* range that is not the "All" range, one for a travel purpose and one for a travel domain
Appended(n) ==
    LET one(k) ==
            CASE k \in 1..2 -> IF probe.returned.summaries[k] # <<"All">> THEN 1 ELSE 0
              [] k \in 3..5 -> IF AllRange(probe.column_map, data_cols[k]) THEN 0 ELSE 2
              [] k \in 6..7 -> IF TruthyStr(probe.column_map[data_cols[k]]) THEN 1 ELSE 0
        RECURSIVE upto(_)
        upto(k) == IF k = 0 THEN 0 ELSE upto(k - 1) + one(k)
    IN  upto(n)

\* row i is in the audience the returned mask stands for (the empty mask: every row)
Includes(i) == probe.returned.final_mask = <<>> \/ probe.returned.final_mask[i]

\* C24: a numeric dimension whose range is the range of "All" appends no mask, and a row with
\* no value in it is in the audience when the masks of the other dimensions let it in; for
\* any other range the dimension appends, in this order, the mask of the rows with a value
\* >= the lower bound and the mask of the rows with a value <= the upper bound, and the
\* audience holds no row without a value or with a value outside the bounds.
C24_AllRangeNoBounds ==
    Called =>
        /\ Len(probe.masks) = Appended(7) + Len(probe.behavioural)
        /\ \A k \in 3..5 :
            LET col_name == data_cols[k]
                value == probe.column_map[col_name][1]
                cell(i) == df[i][DemoColumn(col_name)]
                at == Appended(k - 1)
            IN  IF AllRange(probe.column_map, col_name)
                THEN /\ Appended(k) = at
                     /\ \A i \in Rows :
                            cell(i) = NaN =>
                                (Includes(i) <=>
                                    \A m \in 1..Len(probe.masks) : TruthyCell(probe.masks[m][i]))
                ELSE /\ Appended(k) = at + 2
                     /\ \A i \in Rows :
                            /\ probe.masks[at + 1][i] = <<cell(i) # NaN /\ cell(i)[1] >= value[1]>>
                            /\ probe.masks[at + 2][i] = <<cell(i) # NaN /\ cell(i)[1] <= value[2]>>
                            /\ Includes(i) =>
                                    cell(i) # NaN /\ value[1] <= cell(i)[1] /\ cell(i)[1] <= value[2]

\* the call was made with the age range of "All" and an income range that is no option: the
\* row without an age, whose income is the upper bound, and a row whose income is the lower
\* bound are in the audience, the row without an income is not
C24_Witness ==
    /\ Called
    /\ AllRange(probe.column_map, "Age")
    /\ probe.column_map["Income"] = <<(<<40, 90>>)>>
    /\ NoPreset(probe.column_map, "Income")
    /\ probe.returned.final_mask # <<>>
    /\ Includes(9) /\ df[9]["age"] = NaN /\ df[9]["inc"] = <<90>>
    /\ Includes(3) /\ df[3]["inc"] = <<40>>
    /\ ~Includes(6) /\ df[6]["inc"] = NaN


-----------------------------------------------------------------------------
(* Properties of the bar plot of one column (SpecFunction) *)

\* the categories of the audience's answers in a column: the distinct values of its cells
Categories(column) ==
    {df[probe.rows[k]][column][1] : k \in {j \in 1..Len(probe.rows) :
                                              df[probe.rows[j]][column] # NaN}}

\* the frequency of a category: the number of rows of the audience with that value
Frequency(column, label) ==
    Cardinality({k \in 1..Len(probe.rows) : df[probe.rows[k]][column] = <<label>>})

\* C30: the bars one_col_h_bar_plot returns are distinct categories of the column, each with
\* its frequency, in non-increasing order of frequency; none is "Others" when the call says
\* Others = False; they are no more than the cut-off; and a category that is left out by the
\* cut-off (not by the exclusion of "Others") is no more frequent than any bar.
C30_BarsByFrequency ==
    (Returned /\ probe.call.name = "one_col_h_bar_plot") =>
        LET column == probe.call.columns[1]
            kwargs == probe.call.kwargs
            bars == probe.returned.values[1]
            shown == {bars[i].label : i \in 1..Len(bars)}
        IN  /\ \A i \in 1..Len(bars) :
                    /\ bars[i].label \in Categories(column)
                    /\ bars[i].count = <<Frequency(column, bars[i].label)>>
            /\ \A i, j \in 1..Len(bars) :
                    i < j => bars[i].label # bars[j].label /\ bars[i].count[1] >= bars[j].count[1]
            /\ ~kwargs.Others => StrV("Others") \notin shown
            /\ kwargs.cut_off # None => Len(bars) <= kwargs.cut_off[1]
            /\ \A label \in Categories(column) \ shown :
                    \/ ~kwargs.Others /\ label = StrV("Others")
                    \/ \A i \in 1..Len(bars) : Frequency(column, label) <= bars[i].count[1]

\* the function was called with Others = False and a cut-off of two for a column in which
\* "Others" is one of the two most frequent categories: two bars are returned, neither is
\* "Others", and a category as frequent as the second bar is left out
C30_Witness ==
    /\ Returned
    /\ probe.call.name = "one_col_h_bar_plot"
    /\ probe.call.columns = <<"q15">>
    /\ ~probe.call.kwargs.Others
    /\ probe.call.kwargs.cut_off = Some(2)
    /\ Len(probe.returned.values[1]) = 2
    /\ Frequency("q15", StrV("Others")) >= probe.returned.values[1][2].count[1]
    /\ \E label \in Categories("q15") \ {StrV("Others")} :
            /\ \A i \in 1..2 : probe.returned.values[1][i].label # label
            /\ probe.returned.values[1][2].count = <<Frequency("q15", label)>>


-----------------------------------------------------------------------------
(* Properties of the behavioural inputs (SpecUpdate) *)

\* the question, the items and the responses selected for audience X
BehaviouralInputs(X) ==
    <<inputs[X]["custom_selected_question-"], inputs[X]["custom_selected_item-"],
      inputs[X]["custom_selected_response-"]>>

\* the list holds every response value of the items, once each: in ascending order when all
\* are integers, else in the order in which the items' lists first name them
UnionOfResponses(list, question, items) ==
    LET dict == question_items_values_dict(question)
        named == Flatten([k \in 1..Len(items) |-> Lookup(dict, items[k])])
        first(v) == CHOOSE p \in 1..Len(named) :
                        named[p] = v /\ \A o \in 1..(p - 1) : named[o] # v
    IN  /\ {list[k] : k \in 1..Len(list)} = {named[p] : p \in 1..Len(named)}
        /\ \A a, b \in 1..Len(list) :
                a < b => /\ list[a] # list[b]
                         /\ IF \A k \in 1..Len(list) : IsInt(list[k])
                            THEN list[a].n < list[b].n
                            ELSE first(list[a]) < first(list[b])

\* what the two callbacks leave in the inputs of audience X
CascadeOf(X) ==
    LET question == BehaviouralInputs(X)[1]
        items == BehaviouralInputs(X)[2]
        responses == BehaviouralInputs(X)[3]
    IN  /\ JustRan("on_custom_selected_question", <<Id("custom_selected_question-", X)>>) =>
                IF TruthyStr(question)
                THEN items = Some(Keys(question_items_values_dict(question[1])))
                ELSE items = None
        /\ JustRan("on_custom_selected_item", <<Id("custom_selected_item-", X)>>) =>
                IF TruthyList(items)
                THEN responses # None /\ UnionOfResponses(responses[1], question[1], items[1])
                ELSE responses = None
        /\ (Ready /\ ~TruthyStr(question)) =>
                /\ items = None
                /\ responses = None
                /\ BehaviouralMasks(ColumnMap(inputs[X])) = <<>>

\* C26: when on_custom_selected_question has run for an audience, its items are all the items
\* of its question (none without a question); when on_custom_selected_item has run, its
\* responses are the union of the response values of its items, once each, ascending when all
\* are integers and in the order of first mention otherwise (none without items); once the
\* callbacks have run without a question, no item and no response is selected and the
\* behavioural filter adds no mask; and no run of either callback for one audience changes
\* the question, the items or the responses of the other.
C26_BehaviouralCascade ==
    /\ [](\A X \in Cohorts : CascadeOf(X))
    /\ [][\A X, Y \in Cohorts :
            (/\ X # Y
             /\ \/ JustRan("on_custom_selected_question", <<Id("custom_selected_question-", X)>>)'
                \/ JustRan("on_custom_selected_item", <<Id("custom_selected_item-", X)>>)')
            => BehaviouralInputs(Y)' = BehaviouralInputs(Y)]_vars

\* on_custom_selected_item has run for audience A after the question with two items was
\* selected: the responses are the four values of the two scales in ascending order, and
\* audience B holds its own question, item and response
C26_Witness ==
    /\ JustRan("on_custom_selected_item", <<Id("custom_selected_item-", "A")>>)
    /\ BehaviouralInputs("A") = <<Some(Q5), Some(<<"Lounge", "Shops">>),
                                  Some(<<IntV(0), IntV(1), IntV(2), IntV(3)>>)>>
    /\ BehaviouralInputs("B") = <<Some(Q15), Some(<<Q15>>), Some(<<StrV("ai")>>)>>
    /\ edits = 1


-----------------------------------------------------------------------------
(* callbacks.py: on_travel_type_options, run on its own from the layout's three radios of
   each audience; probe holds their values, the runs of the callback still to come and the
   trigger of the run before *)

travel_categories == <<"All-type-", "purpose-type-", "domain-type-">>

\* the values the options of a radio offer
TypeOptions(category) ==
    CASE category = "All-type-" -> <<"All">>
      [] category = "purpose-type-" -> Values(traveller_purposes)
      [] category = "domain-type-" -> Values(traveller_domains)

\* a faulty variant: a purpose or a domain clears the other of the two as well
on_travel_type_options_exclusive(triggered, states) ==
    IF triggered = <<>> THEN Neither
    ELSE LET trigger_id == triggered[1]
             k == IndexOf(travel_categories, trigger_id.name)
             X_states == [j \in 1..3 |-> IF j = k THEN states[trigger_id.version][j] ELSE None]
         IN  [Y \in Cohorts |-> IF Y = trigger_id.version THEN Some(X_states) ELSE no_update]

\* on_travel_type_options: what it returns for the three radios of each audience, given the
\* trigger and the States (the values of the radios, the triggering one included)
on_travel_type_options(triggered, states) ==
    IF triggered = <<>> THEN Neither
    ELSE LET trigger_id == triggered[1]
             X_states == IF trigger_id.name = "All-type-"
                         THEN <<states[trigger_id.version][1], None, None>>
                         ELSE <<None, states[trigger_id.version][2],
                                states[trigger_id.version][3]>>
         IN  [Y \in Cohorts |-> IF Y = trigger_id.version THEN Some(X_states) ELSE no_update]

\* the layout: "All travelers" is selected, no purpose and no domain; the first run of the
\* callback, without a trigger, is to come
InitTravelType ==
    /\ Layout
    /\ probe = [fn |-> "on_travel_type_options",
                states |-> [X \in Cohorts |-> <<Some("All"), None, None>>],
                queue |-> << <<>> >>, ran |-> <<>>]

\* the user picks an option of a radio that is not the selected one
ClickTravelType ==
    /\ probe.fn = "on_travel_type_options"
    /\ probe.queue = <<>>
    /\ \E X \in Cohorts, k \in 1..3 :
        \E o \in 1..Len(TypeOptions(travel_categories[k])) :
            /\ probe.states[X][k] # Some(TypeOptions(travel_categories[k])[o])
            /\ probe' = [probe EXCEPT
                            !.states[X][k] = Some(TypeOptions(travel_categories[k])[o]),
                            !.queue = << <<Id(travel_categories[k], X)>> >>]
    /\ UNCHANGED <<phase, inputs, sample_style, update_style, sample_children, filtered_df,
                   summary_children, summary_class, check_B, not_audience_A, question_search,
                   output, overview_style, pending, last, edits>>

\* the callback runs; the radios take what it returns
RunTravelTypeOptions ==
    /\ probe.fn = "on_travel_type_options"
    /\ probe.queue # <<>>
    /\ probe' = [probe EXCEPT
                    !.states = Apply(probe.states,
                                     on_travel_type_options(Head(probe.queue), probe.states)),
                    !.queue = Tail(probe.queue),
                    !.ran = Head(probe.queue)]
    /\ UNCHANGED <<phase, inputs, sample_style, update_style, sample_children, filtered_df,
                   summary_children, summary_class, check_B, not_audience_A, question_search,
                   output, overview_style, pending, last, edits>>

NextTravelType == ClickTravelType \/ RunTravelTypeOptions

SpecTravelType == InitTravelType /\ [][NextTravelType]_vars

-----------------------------------------------------------------------------
(* Properties of the traveller type radios (SpecTravelType) *)

\* C25: once on_travel_type_options has run, "All travelers" is selected for an audience if
\* and only if it has neither a purpose nor a domain selected; and a run for a radio of one
\* audience leaves the radios of the other as they were, leaves "All travelers" alone
\* selected when that was the radio, and otherwise deselects "All travelers" and keeps the
\* purpose and the domain as they were at the run.
C25_AllIffNeither ==
    /\ []((probe.fn = "on_travel_type_options" /\ probe.queue = <<>>) =>
            \A X \in Cohorts :
                probe.states[X][1] # None
                    <=> (probe.states[X][2] = None /\ probe.states[X][3] = None))
    /\ [][(probe.queue # <<>> /\ probe.queue[1] # <<>>) =>
            LET trigger_id == probe.queue[1][1]
                X == trigger_id.version
            IN  /\ \A Y \in Cohorts \ {X} : probe'.states[Y] = probe.states[Y]
                /\ trigger_id.name = "All-type-" =>
                        probe'.states[X] = <<Some("All"), None, None>>
                /\ trigger_id.name # "All-type-" =>
                        /\ probe'.states[X] = <<None, probe.states[X][2], probe.states[X][3]>>
                        /\ \E k \in 2..3 : probe'.states[X][k] # None]_vars

\* the callback has just run for "All travelers" of audience B, which is selected alone,
\* while audience A has a purpose and a domain
C25_Witness ==
    /\ probe.fn = "on_travel_type_options"
    /\ probe.queue = <<>>
    /\ probe.ran = <<Id("All-type-", "B")>>
    /\ probe.states["A"] = <<None, Some("Business"), Some("International")>>
    /\ probe.states["B"] = <<Some("All"), None, None>>


-----------------------------------------------------------------------------
(* callbacks.py: the quick-filter radio of a dimension and its list or range, run on their
   own from the launch. probe holds the dimension and its options dictionary, the radio
   (toggle), the value and the options of the input of each audience, the runs of the two
   callbacks still to come, the number of runs since the launch or the user's last change,
   and that change. Dash runs a callback for every Input a callback has written, whether or
   not the written value differs from the one before. *)

\* the order sorted() gives the names of the markets and genders
Alphabetical == <<"FR", "Female", "Male", "Prefer not to answer", "UK", "US">>

\* sorted(list) of a list of distinct names
sorted(list) == SelectSeq(Alphabetical, LAMBDA s : \E k \in 1..Len(list) : list[k] = s)

\* the options dictionaries checked for a dimension: the ones of the data files and, for the
\* markets, a sheet in alphabetical order, for the travels, statistics with equal quartiles
PresetTables(dim) ==
    CASE dim = "markets" ->
            { market_regions,
              << Opt("All", <<"FR", "UK", "US">>), Opt("Europe", <<"FR", "UK">>),
                 Opt("Americas", <<"US">>) >> }
      [] dim = "genders" -> { gender_groups }
      [] dim = "ages" -> { age_groups }
      [] dim = "incomes" -> { income_groups }
      [] dim = "travels" ->
            { travel_groups,
              [k \in 1..Len(groupings) |->
                  Opt(groupings[k],
                      ranges([min |-> 0, q25 |-> 2, q50 |-> 2, q75 |-> 6, max |-> 12],
                             groupings[k]))] }

Dimensions == {"markets", "genders", "ages", "incomes", "travels"}
ListDimensions == {"markets", "genders"}

\* on_market_options, on_gender_options, on_age_options, on_income_options,
\* on_travel_options: the value (and for a list the options) of the input of each audience
on_options(table, triggered, selected) ==
    LET value(X) == IF TruthyStr(selected[X]) THEN Some(Some(Lookup(table, selected[X][1])))
                    ELSE no_update
    IN  IF Len(triggered) = 2 THEN [X \in Cohorts |-> value(X)]
        ELSE [X \in Cohorts |-> IF triggered[1].version = X THEN value(X) ELSE no_update]

\* what on_market_list and on_gender_list make of the list before they look it up
normalised(dim, list) ==
    LET last_(l, s) == IF \E k \in 1..Len(l) : l[k] = s
                       THEN Append(SelectSeq(l, LAMBDA x : x # s), s) ELSE l
    IN  CASE dim = "markets" -> IF list # <<>> THEN sorted(list) ELSE list
          [] dim = "genders" -> IF list # <<>> THEN last_(sorted(list), "Prefer not to answer")
                                ELSE list
          [] OTHER -> list

\* a faulty variant: the option found is written even when it is the selected one
on_list_unguarded(dim, table, triggered, lists, selected) ==
    IF triggered = <<>> THEN [X \in Cohorts |-> Some(Some("All"))]
    ELSE LET X == triggered[1].version
             i == IF lists[X] = None THEN 0
                  ELSE IndexOf(Values(table), normalised(dim, lists[X][1]))
             select == IF i = 0 THEN Some(None) ELSE Some(Some(Keys(table)[i]))
         IN  [Y \in Cohorts |-> IF Y = X THEN select ELSE no_update]

\* on_market_list, on_gender_list, on_age_range, on_income_range, on_travel_range: the radio
\* of each audience
on_list(dim, table, triggered, lists, selected) ==
    IF triggered = <<>> THEN [X \in Cohorts |-> Some(Some("All"))]
    ELSE LET X == triggered[1].version
             i == IF lists[X] = None THEN 0
                  ELSE IndexOf(Values(table), normalised(dim, lists[X][1]))
             select == IF i = 0 THEN Some(None)
                       ELSE IF Some(Keys(table)[i]) = selected[X] THEN no_update
                            ELSE Some(Some(Keys(table)[i]))
         IN  [Y \in Cohorts |-> IF Y = X THEN select ELSE no_update]

\* the runs Dash adds for the components a callback has written
Written2(cb, name, returned) ==
    LET ids == SelectSeq(<<Id(name, "A"), Id(name, "B")>>,
                         LAMBDA id : returned[id.version] # no_update)
    IN  IF ids = <<>> THEN <<>> ELSE <<Run(cb, ids)>>

\* the layout: no radio and no input has a value; the first run of the on_*_list or
\* on_*_range callback, without a trigger, is to come
InitPreset ==
    /\ Layout
    /\ \E dim \in Dimensions : \E table \in PresetTables(dim) :
        probe = [fn |-> "presets", dim |-> dim, table |-> table,
                 toggle |-> [X \in Cohorts |-> None],
                 value |-> [X \in Cohorts |-> None],
                 options |-> [X \in Cohorts |-> <<>>],
                 queue |-> <<Run("on_list", <<>>)>>,
                 runs |-> 0,
                 change |-> [kind |-> "launch", version |-> "", key |-> ""]]

\* the user picks an option of the radio that is not the selected one
PickPreset ==
    /\ probe.fn = "presets"
    /\ probe.queue = <<>>
    /\ \E X \in Cohorts : \E k \in 1..Len(probe.table) :
        /\ probe.toggle[X] # Some(probe.table[k].key)
        /\ probe' = [probe EXCEPT
                        !.toggle[X] = Some(probe.table[k].key),
                        !.queue = <<Run("on_options", <<Id("toggle-", X)>>)>>,
                        !.runs = 0,
                        !.change = [kind |-> "preset", version |-> X,
                                    key |-> probe.table[k].key]]
    /\ UNCHANGED <<phase, inputs, sample_style, update_style, sample_children, filtered_df,
                   summary_children, summary_class, check_B, not_audience_A, question_search,
                   output, overview_style, pending, last, edits>>

\* the lists and ranges the user can change the input of audience X to: a list without one
\* of its values or with one more of the options, a range of one value or the range of the
\* fourth option
UserChanges(X) ==
    LET list == probe.value[X][1]
        without(i) == [k \in 1..(Len(list) - 1) |-> IF k < i THEN list[k] ELSE list[k + 1]]
        has(s) == \E k \in 1..Len(list) : list[k] = s
    IN  IF probe.dim \in ListDimensions
        THEN {without(i) : i \in 1..Len(list)}
             \cup {Append(list, probe.options[X][o]) :
                        o \in {j \in 1..Len(probe.options[X]) : ~has(probe.options[X][j])}}
        ELSE {<<probe.table[1].value[1], probe.table[1].value[1]>>, probe.table[4].value}

\* the user changes the list or drags the range
ChangeValue ==
    /\ probe.fn = "presets"
    /\ probe.queue = <<>>
    /\ \E X \in Cohorts :
        /\ probe.value[X] # None
        /\ \E v \in UserChanges(X) :
            /\ Some(v) # probe.value[X]
            /\ probe' = [probe EXCEPT
                            !.value[X] = Some(v),
                            !.queue = <<Run("on_list", <<Id("value-", X)>>)>>,
                            !.runs = 0,
                            !.change = [kind |-> "value", version |-> X, key |-> ""]]
    /\ UNCHANGED <<phase, inputs, sample_style, update_style, sample_children, filtered_df,
                   summary_children, summary_class, check_B, not_audience_A, question_search,
                   output, overview_style, pending, last, edits>>

\* the on_*_options callback runs: the inputs take what it returns
RunOptions ==
    /\ probe.fn = "presets"
    /\ probe.queue # <<>>
    /\ Head(probe.queue).cb = "on_options"
    /\ LET written(returned) ==
            [probe EXCEPT
                !.value = Apply(probe.value, returned),
                !.options = IF probe.dim \in ListDimensions
                            THEN [X \in Cohorts |-> IF returned[X] = no_update
                                                    THEN probe.options[X]
                                                    ELSE returned[X][1][1]]
                            ELSE probe.options,
                !.queue = Tail(probe.queue) \o Written2("on_list", "value-", returned),
                !.runs = probe.runs + 1]
       IN  probe' = written(on_options(probe.table, Head(probe.queue).triggered, probe.toggle))
    /\ UNCHANGED <<phase, inputs, sample_style, update_style, sample_children, filtered_df,
                   summary_children, summary_class, check_B, not_audience_A, question_search,
                   output, overview_style, pending, last, edits>>

\* the on_*_list or on_*_range callback runs: the radios take what it returns
RunList ==
    /\ probe.fn = "presets"
    /\ probe.queue # <<>>
    /\ Head(probe.queue).cb = "on_list"
    /\ LET written(returned) ==
            [probe EXCEPT
                !.toggle = Apply(probe.toggle, returned),
                !.queue = Tail(probe.queue) \o Written2("on_options", "toggle-", returned),
                !.runs = probe.runs + 1]
       IN  probe' = written(on_list(probe.dim, probe.table, Head(probe.queue).triggered,
                                    probe.value, probe.toggle))
    /\ UNCHANGED <<phase, inputs, sample_style, update_style, sample_children, filtered_df,
                   summary_children, summary_class, check_B, not_audience_A, question_search,
                   output, overview_style, pending, last, edits>>

NextPreset == PickPreset \/ ChangeValue \/ RunOptions \/ RunList

SpecPreset == InitPreset /\ [][NextPreset]_vars

-----------------------------------------------------------------------------
(* Properties of the quick filters (SpecPreset) *)

\* the callbacks have run to the end after the user's change
Settled == probe.fn = "presets" /\ probe.queue = <<>>

\* C22: after a change of the user to a radio or to a list or range, not more than four runs
\* of the two callbacks of the dimension are made before none is left to run (the radio's
\* callback, the list's, and at most once more each), for every options dictionary; and no
\* run is left only when both have run for what the other wrote.
C22_ChainSettles ==
    (probe.fn = "presets" /\ probe.change.kind # "launch") =>
        /\ probe.runs <= 4
        /\ Settled => probe.runs >= 2 \/ (probe.change.kind = "value" /\ probe.runs = 1)

\* the user picked an option, the callback of the range selected another option with the
\* same range, and the two callbacks ran once more: four runs, and none is left
C22_Witness ==
    /\ Settled
    /\ probe.change.kind = "preset"
    /\ probe.toggle[probe.change.version] # Some(probe.change.key)
    /\ probe.toggle[probe.change.version] # None
    /\ probe.runs = 4

\* C23 (as claimed): once the callbacks have run after the user picked an option P of the
\* radio, P is the selected option and the list or range is the value of P, for every options
\* dictionary.
C23_PresetStays ==
    (Settled /\ probe.change.kind = "preset") =>
        /\ probe.toggle[probe.change.version] = Some(probe.change.key)
        /\ probe.value[probe.change.version] = Some(Lookup(probe.table, probe.change.key))

\* the user picked "Bottom 50%" of a dictionary in which it has the range of "Bottom 25%":
\* the callbacks have run and "Bottom 25%" is the selected option
C23_Counterexample ==
    /\ Settled
    /\ probe.change.kind = "preset"
    /\ probe.change.key = "Bottom 50%"
    /\ Lookup(probe.table, "Bottom 50%") = Lookup(probe.table, "Bottom 25%")
    /\ probe.toggle[probe.change.version] = Some("Bottom 25%")
    /\ probe.value[probe.change.version] = Some(Lookup(probe.table, "Bottom 50%"))

=============================================================================
